---- MODULE Spec2Model ----
(***************************************************************************)
(* The CDC codec (src/src/encoding.rs), the RPC client                     *)
(* (src/src/network.rs) and the thread-local facade (src/src/lib.rs).      *)
(*                                                                         *)
(* Representation.  A Rust String / Vec<u8> is a sequence of bytes.  An    *)
(* i64 is the record [hi, lo] of its two 32-bit halves, each read as a     *)
(* signed 32-bit number (the model checker's integers are 32 bits wide),   *)
(* so every 8-byte wire integer has exactly one model value.  An f64 is    *)
(* its 8 bytes.  A HashMap is a function from keys to values.  A fn        *)
(* pointer is the name of the function.                                    *)
(***************************************************************************)
EXTENDS Integers, Sequences, FiniteSets, TLC

\* ------------------------------------------------------------------ bytes

Drop(buf, n) == SubSeq(buf, n + 1, Len(buf))

Take(buf, n) == SubSeq(buf, 1, n)

\* i64 from a number that fits 32 bits (`x as i64`).
I64(n) == [hi |-> IF n < 0 THEN -1 ELSE 0, lo |-> n]

\* The four little-endian bytes of a signed 32-bit half.
Le32(x) == << x % 256, (x \div 256) % 256, (x \div 65536) % 256, (x \div 16777216) % 256 >>

From32(b) ==
    b[1] + 256 * b[2] + 65536 * b[3] + 16777216 * (IF b[4] >= 128 THEN b[4] - 256 ELSE b[4])

\* An encoding of i64 with the high half first.  C14 tells it from
\* to_le_bytes.
to_le_bytes_HighFirst(i) == Le32(i.hi) \o Le32(i.lo)

\* i64::to_le_bytes
to_le_bytes(i) == Le32(i.lo) \o Le32(i.hi)

\* i64::from_le_bytes
from_le_bytes(b) == [hi |-> From32(SubSeq(b, 5, 8)), lo |-> From32(SubSeq(b, 1, 4))]

\* `x as usize` is below 2^31 (no buffer of the model is that long).
IsSmall(x) == x.hi = 0 /\ x.lo >= 0

IsNegative(x) == x.hi < 0

\* `x as i32`: the low half.
AsI32(x) == x.lo

\* ------------------------------------------------------- string literals

\* connection::error
ABORT == <<84, 111, 109, 58, 58, 71, 83, 99, 114, 105, 112, 116, 58, 58, 66, 114, 101, 97, 107, 69, 120, 99, 101, 112, 116, 105, 111, 110>>
ATTRIBUTE == <<84, 111, 109, 58, 58, 71, 83, 99, 114, 105, 112, 116, 58, 58, 65, 116, 116, 114, 105, 98, 117, 116, 101, 69, 120, 99, 101, 112, 116, 105, 111, 110>>
IMPORT == <<84, 111, 109, 58, 58, 71, 83, 99, 114, 105, 112, 116, 58, 58, 73, 109, 112, 111, 114, 116, 69, 120, 99, 101, 112, 116, 105, 111, 110>>
INDEX == <<84, 111, 109, 58, 58, 71, 83, 99, 114, 105, 112, 116, 58, 58, 73, 110, 100, 101, 120, 69, 120, 99, 101, 112, 116, 105, 111, 110>>
PYTHON == <<84, 111, 109, 58, 58, 71, 83, 99, 114, 105, 112, 116, 58, 58, 80, 121, 116, 104, 111, 110, 69, 120, 99, 101, 112, 116, 105, 111, 110>>

\* connection::attribute
TYPE == <<116, 121, 112, 101>>                                      \* "type"
ID == <<105, 100>>                                                  \* "id"
VALUE == <<118, 97, 108, 117, 101>>                                 \* "value"
PARAMS == <<112, 97, 114, 97, 109, 115>>                            \* "params"
ARGS == <<97, 114, 103, 115>>                                       \* "args"
KWARGS == <<107, 119, 97, 114, 103, 115>>                           \* "kwargs"
DESCRIPTION == <<100, 101, 115, 99, 114, 105, 112, 116, 105, 111, 110>>  \* "description"
CODE == <<99, 111, 100, 101>>                                       \* "code"
LOG == <<108, 111, 103>>                                            \* "log"
APIKEY == <<97, 112, 105, 107, 101, 121>>                           \* "apikey"

\* connection::attribute::types
T_ERROR == <<101, 114, 114, 111, 114>>                              \* "error"
T_REQUEST == <<114, 101, 113, 117, 101, 115, 116>>                  \* "request"
T_REPLY == <<114, 101, 112, 108, 121>>                              \* "reply"
T_CALL == <<99, 97, 108, 108>>                                      \* "call"
T_WAIT == <<119, 97, 105, 116>>                                     \* "wait"

\* The language tag encode_value writes after a callable's handle.
RUST_FUNCTION == <<114, 117, 115, 116, 32, 102, 117, 110, 99, 116, 105, 111, 110>>

\* Keys and the label the facade puts into request parameters.
K_TEXT == <<116, 101, 120, 116>>                                    \* "text"
K_TRANSLATION == <<116, 114, 97, 110, 115, 108, 97, 116, 105, 111, 110>>  \* "translation"
K_FILE == <<102, 105, 108, 101>>                                    \* "file"
K_ITEM == <<105, 116, 101, 109>>                                    \* "item"
K_OTHER_ITEM == <<111, 116, 104, 101, 114>>                         \* "other"
K_CATEGORY == <<99, 97, 116, 101, 103, 111, 114, 121>>              \* "category"
K_STAGE == <<115, 116, 97, 103, 101>>                               \* "stage"
K_COMMAND == <<99, 111, 109, 109, 97, 110, 100>>                    \* "command"
K_NAME == <<110, 97, 109, 101>>                                     \* "name"
K_INDEX == <<105, 110, 100, 101, 120>>                              \* "index"
K_EXPRESSION == <<101, 120, 112, 114, 101, 115, 115, 105, 111, 110>>  \* "expression"
K_CONDITION == <<99, 111, 110, 100, 105, 116, 105, 111, 110>>       \* "condition"
K_OBJECT == <<111, 98, 106, 101, 99, 116>>                          \* "object"
GOM_PREFIX == <<103, 111, 109, 46>>                                 \* "gom."
CALLER_LABEL == <<122, 101, 105, 115, 115, 95, 105, 110, 115, 112, 101, 99, 116, 95, 97, 112, 105, 95, 114, 117, 115, 116>>

\* u64::MAX in decimal.
U64_MAX_DIGITS == <<49, 56, 52, 52, 54, 55, 52, 52, 48, 55, 51, 55, 48, 57, 53, 53, 49, 54, 49, 53>>

\* ------------------------------------------------------------ the values

\* A tag table that numbers Blob 21.  C26 tells it from Tag.
Tag_BlobAt21(t) ==
    CASE t = "NONE" -> 0 [] t = "BOOL" -> 1 [] t = "INTEGER" -> 2 [] t = "FLOAT" -> 3
      [] t = "STRING" -> 4 [] t = "LIST" -> 5 [] t = "MAP" -> 6 [] t = "SLICE" -> 7
      [] t = "ITEM" -> 8 [] t = "INDEXABLE" -> 9 [] t = "COMMAND" -> 10
      [] t = "CALLABLE" -> 11 [] t = "ERROR" -> 12 [] t = "TRAIT" -> 13
      [] t = "OBJECT" -> 14 [] t = "ARRAY" -> 15 [] t = "PACKAGE" -> 16
      [] t = "VEC2D" -> 17 [] t = "VEC3D" -> 18 [] t = "RESOURCE_ACCESS" -> 19
      [] t = "BLOB" -> 21

\* CdcType: the discriminant of each variant.
Tag(t) ==
    CASE t = "NONE" -> 0 [] t = "BOOL" -> 1 [] t = "INTEGER" -> 2 [] t = "FLOAT" -> 3
      [] t = "STRING" -> 4 [] t = "LIST" -> 5 [] t = "MAP" -> 6 [] t = "SLICE" -> 7
      [] t = "ITEM" -> 8 [] t = "INDEXABLE" -> 9 [] t = "COMMAND" -> 10
      [] t = "CALLABLE" -> 11 [] t = "ERROR" -> 12 [] t = "TRAIT" -> 13
      [] t = "OBJECT" -> 14 [] t = "ARRAY" -> 15 [] t = "PACKAGE" -> 16
      [] t = "VEC2D" -> 17 [] t = "VEC3D" -> 18 [] t = "RESOURCE_ACCESS" -> 19
      [] t = "BLOB" -> 20

\* A discriminant that swaps the last two variants.  C22 tells it from
\* discriminant.
discriminant_Swapped(v) ==
    IF v.t = "BLOB" THEN Tag("RESOURCE_ACCESS")
    ELSE IF v.t = "RESOURCE_ACCESS" THEN Tag("BLOB")
    ELSE Tag(v.t)

\* CdcValue::discriminant: the first byte of the #[repr(u8)] enum.
discriminant(v) == Tag(v.t)

NONE == [t |-> "NONE"]
BOOL(b) == [t |-> "BOOL", b |-> b]
INTEGER(i) == [t |-> "INTEGER", i |-> i]
FLOAT(bits) == [t |-> "FLOAT", bits |-> bits]
\* CdcValue::STRING (STRING itself is a TLA+ keyword).
STR(s) == [t |-> "STRING", s |-> s]
LIST(items) == [t |-> "LIST", items |-> items]
\* A map as a HashMap (decoded values, values built by the client).
MAP(m) == [t |-> "MAP", m |-> m]
\* A map with its iteration order fixed (what encode_value walks through; a
\* peer may also put the same key twice on the wire).
MAPSEQ(pairs) == [t |-> "MAP", pairs |-> pairs]
BLOB(data) == [t |-> "BLOB", data |-> data]
\* A callable; `at` is the address at which the fn pointer is stored.
CALLABLE(f) == [t |-> "CALLABLE", f |-> f]
CALLABLE_AT(f, at) == [t |-> "CALLABLE", f |-> f, at |-> at]

EmptyMap == [k \in {} |-> NONE]

\* An insert that keeps the value a key already has.  C37 tells it from
\* Insert.
Insert_KeepsFirst(m, k, v) == [x \in DOMAIN m \cup {k} |-> IF x \in DOMAIN m THEN m[x] ELSE v]

\* HashMap::insert: the later value replaces the earlier one.
Insert(m, k, v) == [x \in DOMAIN m \cup {k} |-> IF x = k THEN v ELSE m[x]]

\* HashMap::remove: the map without the key.
Remove(m, k) == [x \in DOMAIN m \ {k} |-> m[x]]

\* The other variants, with the field names of their structs (src/src/lib.rs).
\* An Option<i64> is <<>> (None) or <<i>> (Some(i)); an Option<Box<CdcValue>>
\* likewise.  Item.category and Item.stage are i32.
SLICE(start, stop) == [t |-> "SLICE", start |-> start, stop |-> stop]
Item(id, category, stage) == [id |-> id, category |-> category, stage |-> stage]
ITEM(item) == [t |-> "ITEM", item |-> item]
INDEXABLE(item, token, size) == [t |-> "INDEXABLE", item |-> item, token |-> token, size |-> size]
COMMAND(name) == [t |-> "COMMAND", name |-> name]
ERROR(id, text, line) == [t |-> "ERROR", id |-> id, text |-> text, line |-> line]
TRAIT(id, args, kwargs) == [t |-> "TRAIT", id |-> id, args |-> args, kwargs |-> kwargs]
OBJECT(type_id, repr, attributes) ==
    [t |-> "OBJECT", type_id |-> type_id, repr |-> repr, attributes |-> attributes]
ARRAY(project, item, key, index, selected, transformation) ==
    [t |-> "ARRAY", project |-> project, item |-> item, key |-> key, index |-> index,
     selected |-> selected, transformation |-> transformation]
PACKAGE(reference, metadata) == [t |-> "PACKAGE", reference |-> reference, metadata |-> metadata]
VEC2D(x, y) == [t |-> "VEC2D", x |-> x, y |-> y]
VEC3D(x, y, z) == [t |-> "VEC3D", x |-> x, y |-> y, z |-> z]
RESOURCE_ACCESS == [t |-> "RESOURCE_ACCESS"]

\* ---------------------------------------------------------------- encode

\* A string encoding that ends with a NUL terminator.  C23 tells it from
\* encode_string.
encode_string_Terminated(s) == to_le_bytes(I64(Len(s))) \o s \o <<0>>

\* CdcEncoder::encode_string: the byte length as u64, then the bytes.
encode_string(s) == to_le_bytes(I64(Len(s))) \o s

RECURSIVE encode_value(_)
RECURSIVE encode_list(_)
RECURSIVE encode_pairs(_)

\* The loop `for item in list { encode_value(buffer, item) }`.
encode_list(items) ==
    IF items = <<>> THEN <<>> ELSE encode_value(Head(items)) \o encode_list(Tail(items))

\* The loop `for (key, value) in map { encode_string(key); encode_value(value) }`
\* over the pairs in iteration order.
encode_pairs(pairs) ==
    IF pairs = <<>> THEN <<>>
    ELSE encode_string(Head(pairs)[1]) \o encode_value(Head(pairs)[2]) \o encode_pairs(Tail(pairs))

\* The loop `for idx in &arr.index { buffer.extend(idx.to_le_bytes()) }`.
encode_index(index) ==
    LET RECURSIVE go(_)
        go(ix) == IF ix = <<>> THEN <<>> ELSE to_le_bytes(Head(ix)) \o go(Tail(ix))
    IN go(index)

\* CdcEncoder::encode_value: the discriminant, then the payload of the variant.
\* The value is in iteration order: maps, kwargs, attributes and metadata are
\* sequences of <<key, value>>, callables carry their address.
encode_value(v) ==
    <<discriminant(v)>> \o
    CASE v.t = "NONE" -> <<>>
      [] v.t = "BOOL" -> <<IF v.b THEN 1 ELSE 0>>
      [] v.t = "INTEGER" -> to_le_bytes(v.i)
      [] v.t = "FLOAT" -> v.bits
      [] v.t = "STRING" -> encode_string(v.s)
      [] v.t = "LIST" -> to_le_bytes(I64(Len(v.items))) \o encode_list(v.items)
      [] v.t = "MAP" -> to_le_bytes(I64(Len(v.pairs))) \o encode_pairs(v.pairs)
      [] v.t = "SLICE" ->
            encode_value(IF v.start = <<>> THEN NONE ELSE INTEGER(v.start[1]))
            \o encode_value(IF v.stop = <<>> THEN NONE ELSE INTEGER(v.stop[1]))
      [] v.t = "INDEXABLE" ->
            encode_value(ITEM(v.item)) \o encode_string(v.token) \o to_le_bytes(v.size)
      [] v.t = "VEC3D" -> v.x \o v.y \o v.z
      [] v.t = "VEC2D" -> v.x \o v.y
      [] v.t = "COMMAND" -> to_le_bytes(I64(Len(v.name))) \o v.name
      [] v.t = "BLOB" -> to_le_bytes(I64(Len(v.data))) \o v.data
      [] v.t = "CALLABLE" -> encode_string(v.at) \o encode_string(RUST_FUNCTION)
      [] v.t = "ERROR" -> encode_string(v.id) \o encode_string(v.text) \o to_le_bytes(v.line)
      [] v.t = "ITEM" ->
            encode_string(v.item.id) \o to_le_bytes(I64(v.item.category))
            \o to_le_bytes(I64(v.item.stage))
      [] v.t = "TRAIT" ->
            encode_string(v.id) \o encode_value(LIST(v.args)) \o encode_value(MAPSEQ(v.kwargs))
      [] v.t = "OBJECT" ->
            encode_string(v.type_id) \o encode_string(v.repr)
            \o to_le_bytes(I64(Len(v.attributes))) \o encode_pairs(v.attributes)
      [] v.t = "ARRAY" ->
            encode_value(v.project) \o encode_value(v.item) \o encode_string(v.key)
            \o to_le_bytes(I64(Len(v.index))) \o encode_index(v.index)
            \o <<IF v.selected THEN 1 ELSE 0>>
            \o (IF v.transformation = <<>> THEN <<0>>
                ELSE <<1>> \o encode_value(v.transformation[1]))
      [] v.t = "PACKAGE" ->
            encode_string(v.reference) \o to_le_bytes(I64(Len(v.metadata)))
            \o encode_pairs(v.metadata)
      [] v.t = "RESOURCE_ACCESS" -> <<>>

\* ---------------------------------------------------------------- decode

\* Result<_, DecodeError> together with the buffer position after the read.
Ok(v, rest) == [ok |-> TRUE, val |-> v, rest |-> rest]

Err(e) == [ok |-> FALSE, err |-> e]

IsCont(b) == b >= 128 /\ b <= 191

\* For a lead byte: <<number of continuation bytes, lowest and highest legal
\* second byte>>; <<0, 0, 0>> for a byte that cannot start a sequence.
Utf8Lead(c) ==
    IF c >= 194 /\ c <= 223 THEN <<1, 128, 191>>
    ELSE IF c = 224 THEN <<2, 160, 191>>
    ELSE IF c = 237 THEN <<2, 128, 159>>
    ELSE IF c >= 225 /\ c <= 239 THEN <<2, 128, 191>>
    ELSE IF c = 240 THEN <<3, 144, 191>>
    ELSE IF c >= 241 /\ c <= 243 THEN <<3, 128, 191>>
    ELSE IF c = 244 THEN <<3, 128, 143>>
    ELSE <<0, 0, 0>>

\* How many of the bytes after the lead byte continue its sequence.
Utf8Matched(b, lead) ==
    LET second == Len(b) >= 2 /\ b[2] >= lead[2] /\ b[2] <= lead[3]
        third == second /\ Len(b) >= 3 /\ IsCont(b[3])
        fourth == third /\ Len(b) >= 4 /\ IsCont(b[4])
    IN IF lead[1] >= 3 /\ fourth THEN 3
       ELSE IF lead[1] >= 2 /\ third THEN 2
       ELSE IF lead[1] >= 1 /\ second THEN 1
       ELSE 0

RECURSIVE from_utf8_lossy(_)
\* String::from_utf8_lossy: valid sequences pass, each maximal invalid part
\* becomes U+FFFD (EF BF BD).
from_utf8_lossy(b) ==
    IF b = <<>> THEN <<>>
    ELSE IF b[1] < 128 THEN <<b[1]>> \o from_utf8_lossy(Tail(b))
    ELSE LET lead == Utf8Lead(b[1])
             k == Utf8Matched(b, lead)
         IN IF lead[1] > 0 /\ k = lead[1]
            THEN Take(b, 1 + k) \o from_utf8_lossy(Drop(b, 1 + k))
            ELSE <<239, 191, 189>> \o from_utf8_lossy(Drop(b, 1 + k))

IsDigit(c) == c >= 48 /\ c <= 57

RECURSIVE StripZeros(_)
StripZeros(d) == IF Len(d) > 1 /\ d[1] = 48 THEN StripZeros(Tail(d)) ELSE d

RECURSIVE DigitsLeq(_, _)
\* d <= e for two digit strings of the same length.
DigitsLeq(d, e) ==
    IF d = <<>> THEN TRUE
    ELSE IF d[1] # e[1] THEN d[1] < e[1]
    ELSE DigitsLeq(Tail(d), Tail(e))

\* A parser that takes any string for a number.  C39 tells it from
\* parse_u64.
parse_u64_Lenient(s) == [ok |-> TRUE, val |-> s]

\* A parser that accepts no handle.  C18 tells it from parse_u64.
parse_u64_Rejects(s) == Err("InvalidDigit")

\* str::parse::<u64>: an optional '+', then one or more decimal digits, the
\* number at most u64::MAX.  A u64 is its decimal digits without leading
\* zeros, which is also what u64::to_string writes.
parse_u64(s) ==
    LET d == IF s # <<>> /\ s[1] = 43 THEN Tail(s) ELSE s
        c == StripZeros(d)
    IN IF d = <<>> \/ \E i \in 1..Len(d) : ~IsDigit(d[i]) THEN Err("InvalidDigit")
       ELSE IF Len(c) > Len(U64_MAX_DIGITS)
               \/ (Len(c) = Len(U64_MAX_DIGITS) /\ ~DigitsLeq(c, U64_MAX_DIGITS))
            THEN Err("PosOverflow")
       ELSE [ok |-> TRUE, val |-> c]

\* CdcEncoder::decode_int
decode_int(buf) ==
    IF Len(buf) < 8 THEN Err("MissingData")
    ELSE Ok(from_le_bytes(Take(buf, 8)), Drop(buf, 8))

\* `buffer.len() < len` for `len = x as usize`.
ShorterThan(buf, x) == IF IsSmall(x) THEN Len(buf) < x.lo ELSE TRUE

\* CdcEncoder::decode_string
decode_string(buf) ==
    LET n == decode_int(buf)
    IN IF ~n.ok THEN n
       ELSE IF ShorterThan(n.rest, n.val) THEN Err("MissingData")
       ELSE Ok(from_utf8_lossy(Take(n.rest, n.val.lo)), Drop(n.rest, n.val.lo))

\* The number of rounds of `for _ in 0..(x as usize)`.  Every round consumes
\* at least one byte or fails, so a count of 2^31 or more fails within
\* Len(buf) + 1 rounds.
Rounds(x, buf) == IF IsSmall(x) THEN x.lo ELSE Len(buf) + 1

\* Vec::with_capacity / HashMap::with_capacity for `x as usize` elements.
\* A negative x is 2^63 or more elements: capacity overflow, a panic.  For
\* the rest the host's allocator decides; env.cap is the largest element
\* count it grants (-1: any), a refusal aborts the process.
Reserved(x, env) ==
    /\ ~IsNegative(x)
    /\ env.cap = -1 \/ (IsSmall(x) /\ x.lo <= env.cap)

\* `if buffer.len() < n { return Err(MissingData) }`, then the n bytes.
read_exact(buf, n) == IF Len(buf) < n THEN Err("MissingData") ELSE Ok(Take(buf, n), Drop(buf, n))

RECURSIVE decode_value(_, _)
RECURSIVE decode_list(_, _, _)
RECURSIVE decode_pairs(_, _, _, _)
RECURSIVE decode_index(_, _)
RECURSIVE decode_array_tail(_, _, _, _, _)

\* `for _ in 0..len { result_list.push(self.decode_value(buffer)?) }`
decode_list(buf, n, env) ==
    IF n = 0 THEN Ok(<<>>, buf)
    ELSE LET x == decode_value(buf, env)
         IN IF ~x.ok THEN x
            ELSE LET xs == decode_list(x.rest, n - 1, env)
                 IN IF ~xs.ok THEN xs ELSE Ok(<<x.val>> \o xs.val, xs.rest)

\* `for _ in 0..len { map.insert(self.decode_string(buffer)?, self.decode_value(buffer)?) }`
decode_pairs(buf, n, env, acc) ==
    IF n = 0 THEN Ok(acc, buf)
    ELSE LET k == decode_string(buf)
         IN IF ~k.ok THEN k
            ELSE LET x == decode_value(k.rest, env)
                 IN IF ~x.ok THEN x
                    ELSE decode_pairs(x.rest, n - 1, env, Insert(acc, k.val, x.val))

\* `for _ in 0..index_len { index.push(self.decode_int(buffer)?) }`
decode_index(buf, n) ==
    IF n = 0 THEN Ok(<<>>, buf)
    ELSE LET x == decode_int(buf)
         IN IF ~x.ok THEN x
            ELSE LET xs == decode_index(x.rest, n - 1)
                 IN IF ~xs.ok THEN xs ELSE Ok(<<x.val>> \o xs.val, xs.rest)

\* The Slice slot: None or Integer, anything else is no slot.
slice_slot(v) ==
    IF v.t = "NONE" THEN Ok(<<>>, <<>>)
    ELSE IF v.t = "INTEGER" THEN Ok(<<v.i>>, <<>>)
    ELSE Err("UnknownType")

\* An Indexable that takes whatever value comes first.  C25 tells it from
\* indexable_item.
indexable_item_Any(v) == Ok(IF v.t = "ITEM" THEN v.item ELSE Item(<<>>, 0, 0), <<>>)

\* The first value of an Indexable: an Item, anything else is no item.
indexable_item(v) == IF v.t = "ITEM" THEN Ok(v.item, <<>>) ELSE Err("UnknownType")

\* CdcEncoder::decode_value.  env.reg is registeredc_callables, env.cap the
\* host's allocation limit (see Reserved).  The result is Ok(value, unread
\* rest), Err(DecodeError) or Err("Abort") when the process does not survive.
decode_value(buf, env) ==
    IF buf = <<>> THEN Err("MissingData")
    ELSE
    LET type_byte == buf[1]
        b == Tail(buf)
    IN
    CASE type_byte = Tag("NONE") -> Ok(NONE, b)
      [] type_byte = Tag("BOOL") ->
            IF b = <<>> THEN Err("MissingData") ELSE Ok(BOOL(b[1] # 0), Tail(b))
      [] type_byte = Tag("INTEGER") ->
            LET i == decode_int(b) IN IF ~i.ok THEN i ELSE Ok(INTEGER(i.val), i.rest)
      [] type_byte = Tag("FLOAT") ->
            LET f == read_exact(b, 8) IN IF ~f.ok THEN f ELSE Ok(FLOAT(f.val), f.rest)
      [] type_byte = Tag("STRING") ->
            LET s == decode_string(b) IN IF ~s.ok THEN s ELSE Ok(STR(s.val), s.rest)
      [] type_byte = Tag("LIST") ->
            LET len == decode_int(b)
            IN IF ~len.ok THEN len
               ELSE IF ~Reserved(len.val, env) THEN Err("Abort")
               ELSE LET xs == decode_list(len.rest, Rounds(len.val, len.rest), env)
                    IN IF ~xs.ok THEN xs ELSE Ok(LIST(xs.val), xs.rest)
      [] type_byte = Tag("MAP") ->
            LET len == decode_int(b)
            IN IF ~len.ok THEN len
               ELSE IF ~Reserved(len.val, env) THEN Err("Abort")
               ELSE LET m == decode_pairs(len.rest, Rounds(len.val, len.rest), env, EmptyMap)
                    IN IF ~m.ok THEN m ELSE Ok(MAP(m.val), m.rest)
      [] type_byte = Tag("SLICE") ->
            LET start == decode_value(b, env)
            IN IF ~start.ok THEN start
               ELSE LET stop == decode_value(start.rest, env)
                    IN IF ~stop.ok THEN stop
                       ELSE LET start_opt == slice_slot(start.val)
                                stop_opt == slice_slot(stop.val)
                            IN IF ~start_opt.ok THEN start_opt
                               ELSE IF ~stop_opt.ok THEN stop_opt
                               ELSE Ok(SLICE(start_opt.val, stop_opt.val), stop.rest)
      [] type_byte = Tag("INDEXABLE") ->
            LET item_value == decode_value(b, env)
            IN IF ~item_value.ok THEN item_value
               ELSE LET token == decode_string(item_value.rest)
                    IN IF ~token.ok THEN token
                       ELSE LET size == decode_int(token.rest)
                            IN IF ~size.ok THEN size
                               ELSE LET item == indexable_item(item_value.val)
                                    IN IF ~item.ok THEN item
                                       ELSE Ok(INDEXABLE(item.val, token.val, size.val),
                                               size.rest)
      [] type_byte = Tag("VEC3D") ->
            LET f == read_exact(b, 24)
            IN IF ~f.ok THEN f
               ELSE Ok(VEC3D(SubSeq(f.val, 1, 8), SubSeq(f.val, 9, 16), SubSeq(f.val, 17, 24)),
                       f.rest)
      [] type_byte = Tag("VEC2D") ->
            LET f == read_exact(b, 16)
            IN IF ~f.ok THEN f
               ELSE Ok(VEC2D(SubSeq(f.val, 1, 8), SubSeq(f.val, 9, 16)), f.rest)
      [] type_byte = Tag("COMMAND") ->
            LET name == decode_string(b)
            IN IF ~name.ok THEN name ELSE Ok(COMMAND(name.val), name.rest)
      [] type_byte = Tag("BLOB") ->
            LET len == decode_int(b)
            IN IF ~len.ok THEN len
               ELSE IF ShorterThan(len.rest, len.val) THEN Err("MissingData")
               ELSE Ok(BLOB(Take(len.rest, len.val.lo)), Drop(len.rest, len.val.lo))
      [] type_byte = Tag("CALLABLE") ->
            LET pointer_str == decode_string(b)
            IN IF ~pointer_str.ok THEN pointer_str
               ELSE LET pointer == parse_u64(pointer_str.val)
                    IN IF ~pointer.ok THEN Err("UnknownType")
                       ELSE IF pointer.val \in DOMAIN env.reg
                            THEN Ok(CALLABLE(env.reg[pointer.val]), pointer_str.rest)
                       ELSE Err("MissingFunction")
      [] type_byte = Tag("ERROR") ->
            LET id == decode_string(b)
            IN IF ~id.ok THEN id
               ELSE LET text == decode_string(id.rest)
                    IN IF ~text.ok THEN text
                       ELSE LET line == decode_int(text.rest)
                            IN IF ~line.ok THEN line
                               ELSE Ok(ERROR(id.val, text.val, line.val), line.rest)
      [] type_byte = Tag("TRAIT") ->
            LET id == decode_string(b)
            IN IF ~id.ok THEN id
               ELSE LET args_value == decode_value(id.rest, env)
                    IN IF ~args_value.ok THEN args_value
                       ELSE LET kwargs_value == decode_value(args_value.rest, env)
                            IN IF ~kwargs_value.ok THEN kwargs_value
                               ELSE IF args_value.val.t # "LIST" THEN Err("UnknownType")
                               ELSE IF kwargs_value.val.t # "MAP" THEN Err("UnknownType")
                               ELSE Ok(TRAIT(id.val, args_value.val.items, kwargs_value.val.m),
                                       kwargs_value.rest)
      [] type_byte = Tag("ITEM") ->
            LET id == decode_string(b)
            IN IF ~id.ok THEN id
               ELSE LET category == decode_int(id.rest)
                    IN IF ~category.ok THEN category
                       ELSE LET stage == decode_int(category.rest)
                            IN IF ~stage.ok THEN stage
                               ELSE Ok(ITEM(Item(id.val, AsI32(category.val), AsI32(stage.val))),
                                       stage.rest)
      [] type_byte = Tag("RESOURCE_ACCESS") -> Ok(RESOURCE_ACCESS, b)
      [] type_byte = Tag("OBJECT") ->
            LET type_id == decode_string(b)
            IN IF ~type_id.ok THEN type_id
               ELSE LET repr == decode_string(type_id.rest)
                    IN IF ~repr.ok THEN repr
                       ELSE LET attr_count == decode_int(repr.rest)
                            IN IF ~attr_count.ok THEN attr_count
                               ELSE LET attributes ==
                                            decode_pairs(attr_count.rest,
                                                         Rounds(attr_count.val, attr_count.rest),
                                                         env, EmptyMap)
                                    IN IF ~attributes.ok THEN attributes
                                       ELSE Ok(OBJECT(type_id.val, repr.val, attributes.val),
                                               attributes.rest)
      [] type_byte = Tag("ARRAY") ->
            LET project == decode_value(b, env)
            IN IF ~project.ok THEN project
               ELSE LET item == decode_value(project.rest, env)
                    IN IF ~item.ok THEN item
                       ELSE LET key == decode_string(item.rest)
                            IN IF ~key.ok THEN key
                               ELSE decode_array_tail(project.val, item.val, key.val, key.rest, env)
      [] type_byte = Tag("PACKAGE") ->
            LET reference == decode_string(b)
            IN IF ~reference.ok THEN reference
               ELSE LET metadata_count == decode_int(reference.rest)
                    IN IF ~metadata_count.ok THEN metadata_count
                       ELSE LET metadata ==
                                    decode_pairs(metadata_count.rest,
                                                 Rounds(metadata_count.val, metadata_count.rest),
                                                 env, EmptyMap)
                            IN IF ~metadata.ok THEN metadata
                               ELSE Ok(PACKAGE(reference.val, metadata.val), metadata.rest)
      [] OTHER -> Err("UnknownType")

\* An Array arm that leaves a zero has-transformation byte unread.  C27
\* tells it from decode_array_tail.
decode_array_tail_KeepsFlag(project, item, key, buf, env) ==
    LET index_len == decode_int(buf)
    IN IF ~index_len.ok THEN index_len
       ELSE LET index == decode_index(index_len.rest, Rounds(index_len.val, index_len.rest))
            IN IF ~index.ok THEN index
               ELSE IF index.rest = <<>> THEN Err("MissingData")
               ELSE LET selected == index.rest[1] # 0
                        b2 == Tail(index.rest)
                    IN IF b2 = <<>> THEN Err("MissingData")
                       ELSE IF b2[1] # 0
                            THEN LET tr == decode_value(Tail(b2), env)
                                 IN IF ~tr.ok THEN tr
                                    ELSE Ok(ARRAY(project, item, key, index.val, selected,
                                                  <<tr.val>>), tr.rest)
                       ELSE Ok(ARRAY(project, item, key, index.val, selected, <<>>), b2)

\* The Array arm of decode_value from the index path on: the path, the
\* selected flag, the has-transformation flag and the transformation.
decode_array_tail(project, item, key, buf, env) ==
    LET index_len == decode_int(buf)
    IN IF ~index_len.ok THEN index_len
       ELSE LET index == decode_index(index_len.rest, Rounds(index_len.val, index_len.rest))
            IN IF ~index.ok THEN index
               ELSE IF index.rest = <<>> THEN Err("MissingData")
               ELSE LET selected == index.rest[1] # 0
                        b2 == Tail(index.rest)
                    IN IF b2 = <<>> THEN Err("MissingData")
                       ELSE IF b2[1] # 0
                            THEN LET tr == decode_value(Tail(b2), env)
                                 IN IF ~tr.ok THEN tr
                                    ELSE Ok(ARRAY(project, item, key, index.val, selected,
                                                  <<tr.val>>), tr.rest)
                       ELSE Ok(ARRAY(project, item, key, index.val, selected, <<>>), Tail(b2))

\* ------------------------------------------------------------ the client

\* A conversion that differs from From in one arm: the index exception falls
\* through to the default.  C5 tells it from From.
From_IndexAsRequest(err) ==
    CASE err.error_type = ABORT -> [kind |-> "Break"]
      [] err.error_type = ATTRIBUTE -> [kind |-> "Attribute"]
      [] err.error_type = IMPORT -> [kind |-> "Import"]
      [] OTHER -> [kind |-> "Request"]

\* impl From<connection::reply::Error> for ConnectionError.  ConnectionError
\* is an enum of unit variants: the record of its variant and nothing else.
From(err) ==
    CASE err.error_type = ABORT -> [kind |-> "Break"]
      [] err.error_type = ATTRIBUTE -> [kind |-> "Attribute"]
      [] err.error_type = IMPORT -> [kind |-> "Import"]
      [] err.error_type = INDEX -> [kind |-> "Index"]
      [] OTHER -> [kind |-> "Request"]

\* connection::reply::Reply
REPLY_ERROR(err) == [reply |-> "ERROR", err |-> err]
REPLY_VALUE(value) == [reply |-> "REPLY", value |-> value]

\* The end of Conntection::request: the entry taken out of `replies` becomes
\* the Result handed to the caller.
request_result(reply) ==
    IF reply.reply = "ERROR" THEN [kind |-> "Err", err |-> From(reply.err)]
    ELSE [kind |-> "Ok", value |-> reply.value]

\* Request: the code of a request kind (`command as i64`).
RequestCode(command) ==
    CASE command = "COMMAND" -> 2
      [] command = "DOC" -> 9
      [] command = "EQUAL" -> 10
      [] command = "GET" -> 13
      [] command = "GETATTR" -> 14
      [] command = "FILTER" -> 15
      [] command = "KEY" -> 18
      [] command = "LEN" -> 19
      [] command = "LESS" -> 20
      [] command = "REGISTER" -> 25
      [] command = "REPR" -> 27
      [] command = "SETATTR" -> 33
      [] command = "TOKENS" -> 36
      [] command = "TRANSLATE" -> 37

\* Uuid::new_v4().to_string() for the n-th identifier drawn; the text is a
\* short stand-in for the 36 characters, different for every n.
Uuid(n) == <<117, 48 + n>>

\* A variant of request_frame that leaves the api key out.  C11 tells it
\* from request_frame.
request_frame_NoApiKey(api_key, request_id_, command, params) ==
    [t |-> "MAP",
     pairs |-> << <<TYPE, STR(T_REQUEST)>>,
                  <<ID, STR(request_id_)>>,
                  <<VALUE, INTEGER(I64(RequestCode(command)))>>,
                  <<PARAMS, MAPSEQ(params)>> >>]

\* The frame Conntection::request builds, its pairs in insertion order.
request_frame(api_key, request_id, command, params) ==
    MAPSEQ(<< <<TYPE, STR(T_REQUEST)>>,
              <<APIKEY, STR(api_key)>>,
              <<ID, STR(request_id)>>,
              <<VALUE, INTEGER(I64(RequestCode(command)))>>,
              <<PARAMS, MAPSEQ(params)>> >>)

\* Conntection::register: the parameters of the REGISTER request.
register_params(interpreter_id, filename) ==
    << <<ID, STR(interpreter_id)>>, <<K_FILE, STR(filename)>> >>

\* execute_command: the parameters of the COMMAND request.
command_params(command_name, args, kwargs) ==
    << <<K_COMMAND, STR(command_name)>>, <<ARGS, LIST(args)>>, <<KWARGS, MAPSEQ(kwargs)>> >>

\* tr: the parameters of the TRANSLATE request; id is the Option<&str>.
tr_params(text, id) ==
    << <<K_TEXT, STR(text)>>, <<ID, STR(IF id = <<>> THEN <<>> ELSE id[1])>> >>

\* An encoder that registers nothing.  C16 tells it from registered.
registered_Nothing(reg, v) == reg

RECURSIVE registered(_, _)
RECURSIVE registered_all(_, _)
\* The registry after encode_value ran over each value of a sequence.
registered_all(reg, vs) ==
    IF vs = <<>> THEN reg ELSE registered_all(registered(reg, Head(vs)), Tail(vs))

Seconds(pairs) == [k \in 1..Len(pairs) |-> pairs[k][2]]

\* What encode_value leaves in registeredc_callables: every callable it
\* meets is inserted under the address it is stored at.
registered(reg, v) ==
    CASE v.t = "CALLABLE" -> Insert(reg, v.at, v.f)
      [] v.t = "LIST" -> registered_all(reg, v.items)
      [] v.t = "MAP" -> registered_all(reg, Seconds(v.pairs))
      [] v.t = "TRAIT" -> registered_all(registered_all(reg, v.args), Seconds(v.kwargs))
      [] v.t = "OBJECT" -> registered_all(reg, Seconds(v.attributes))
      [] v.t = "ARRAY" -> registered_all(reg, <<v.project, v.item>> \o v.transformation)
      [] v.t = "PACKAGE" -> registered_all(reg, Seconds(v.metadata))
      [] OTHER -> reg

\* A dispatch that treats a wait frame as a reply.  C8 tells it from classify.
classify_WaitAsReply(msg_type) ==
    CASE msg_type = T_ERROR -> "error"
      [] msg_type = T_REPLY -> "reply"
      [] msg_type = T_WAIT -> "reply"
      [] msg_type = T_CALL -> "call"
      [] OTHER -> "unknown"

\* A dispatch that ignores a frame of unknown type as it ignores a wait frame.
\* C10 tells it from classify.
classify_UnknownAsWait(msg_type) ==
    CASE msg_type = T_ERROR -> "error"
      [] msg_type = T_REPLY -> "reply"
      [] msg_type = T_CALL -> "call"
      [] OTHER -> "wait"

\* The arm of `match &msg_type[..]` a frame's type string selects.
classify(msg_type) ==
    CASE msg_type = T_ERROR -> "error"
      [] msg_type = T_REPLY -> "reply"
      [] msg_type = T_WAIT -> "wait"
      [] msg_type = T_CALL -> "call"
      [] OTHER -> "unknown"

\* `msg_dict.remove(key).expect(..).expect_T()`: the value under the key if
\* it is there and of the variant, otherwise a panic.
expect_key(msg_dict, key, t) == key \in DOMAIN msg_dict /\ msg_dict[key].t = t

\* The error arm: the five removals, in the order of the struct's fields.
\* `type` was already removed from msg_dict by the classification.
error_arm(msg_dict) ==
    IF /\ expect_key(msg_dict, TYPE, "STRING")
       /\ expect_key(msg_dict, DESCRIPTION, "STRING")
       /\ expect_key(msg_dict, CODE, "INTEGER")
       /\ expect_key(msg_dict, LOG, "STRING")
       /\ expect_key(msg_dict, VALUE, "BLOB")
    THEN [ok |-> TRUE,
          val |-> [error_type |-> msg_dict[TYPE].s,
                   description |-> msg_dict[DESCRIPTION].s,
                   code |-> msg_dict[CODE].i,
                   log |-> msg_dict[LOG].s,
                   value |-> msg_dict[VALUE].data]]
    ELSE [ok |-> FALSE]

\* The key under which the reply and error arms store what they read: the
\* id of the request being awaited.
reply_key(request_id, msg_dict) == request_id

\* The condition of the read loop: it runs while this is false.
resolved(replies_, request_id_) == request_id_ \in DOMAIN replies_

\* ------------------------------------------------- the host and the peer

\* Bounds of the model.
MaxRequests == 2
MaxReads == 2

\* The configuration parse_connection_config hands to Conntection::init and
\* register: the api key and the interpreter id.
API_KEY == <<107, 101, 121>>
INTERPRETER_ID == <<97, 98, 99>>

\* Addresses at which a callable handed to execute_command may be stored when
\* it is encoded, as u64::to_string writes them.
AddrA == <<52, 48, 57, 54>>
AddrB == <<52, 49, 54, 48>>
\* An address no callable was ever stored at.
AddrNone == <<55, 55>>

\* The callables of the host (CdcCallable = fn(CdcList, CdcDict) -> CdcValue).
\* cb_count returns a number made of both arguments; cb_nested calls
\* execute_command and returns what it got, None for an error.
Callables == {"cb_count", "cb_nested"}

\* `func(args, kwargs)` for a callable that returns; `nested` is the outcome
\* of the execute_command call cb_nested makes.
Invoke(f, args, kwargs, nested) ==
    IF f = "cb_count" THEN INTEGER(I64(Len(args) + 10 * Cardinality(DOMAIN kwargs)))
    ELSE IF nested.kind = "Ok" THEN nested.value ELSE NONE

\* The argument lists the host passes to execute_command.
ArgChoices ==
    {<<>>} \cup {<<CALLABLE_AT(f, at)>> : f \in Callables, at \in {AddrA, AddrB}}

\* What the peer sends.  Each entry says what the peer meant (kind, id, body)
\* and holds the bytes of the message.
Frame(kind, id, body, bytes) == [kind |-> kind, id |-> id, body |-> body, bytes |-> bytes]

ReplyFrame(id, value) ==
    Frame("reply", id, [value |-> value],
          encode_value(MAPSEQ(<< <<TYPE, STR(T_REPLY)>>, <<ID, STR(id)>>, <<VALUE, value>> >>)))

\* The same reply with its pairs in another order.
ReplyFrameRev(id, value) ==
    Frame("reply", id, [value |-> value],
          encode_value(MAPSEQ(<< <<VALUE, value>>, <<ID, STR(id)>>, <<TYPE, STR(T_REPLY)>> >>)))

\* An error frame: `type` is there twice, as the frame classifier and as the
\* error taxonomy string; classifier_first says which one comes first.
ErrorFrame(id, T, description, code, log, value, classifier_first) ==
    LET classifier == <<TYPE, STR(T_ERROR)>>
        taxonomy == <<TYPE, STR(T)>>
        rest == << <<ID, STR(id)>>, <<DESCRIPTION, STR(description)>>,
                   <<CODE, INTEGER(I64(code))>>, <<LOG, STR(log)>>, <<VALUE, BLOB(value)>> >>
    IN Frame("error", id,
             [T |-> T, description |-> description, code |-> I64(code), log |-> log,
              value |-> value],
             encode_value(MAPSEQ(IF classifier_first
                                 THEN <<classifier, taxonomy>> \o rest
                                 ELSE <<taxonomy>> \o rest \o <<classifier>>)))

WaitFrame == Frame("wait", <<>>, [x |-> 0], encode_value(MAPSEQ(<< <<TYPE, STR(T_WAIT)>> >>)))

WaitFrameWithId(id) ==
    Frame("wait", id, [x |-> 0],
          encode_value(MAPSEQ(<< <<ID, STR(id)>>, <<TYPE, STR(T_WAIT)>> >>)))

\* A call frame; callable_last says whether the pair of the callable is the
\* last one of the map or comes before args and kwargs.
CallFrame(handle, args, kwargs, callable_last) ==
    LET head == <<TYPE, STR(T_CALL)>>
        value == <<VALUE, CALLABLE_AT("peer", handle)>>
        rest == << <<ARGS, LIST(args)>>, <<KWARGS, MAPSEQ(kwargs)>> >>
    IN Frame("call", <<>>,
             [handle |-> handle, args |-> args, kwargs |-> kwargs,
              callable_last |-> callable_last],
             encode_value(MAPSEQ(IF callable_last THEN <<head>> \o rest \o <<value>>
                                 ELSE <<head, value>> \o rest)))

\* A frame whose type string is none of the four.
OtherFrame(type) ==
    Frame("other", <<>>, [type |-> type], encode_value(MAPSEQ(<< <<TYPE, STR(type)>> >>)))

\* Bytes that are no CDC value.
UndecodableFrame(bytes) == Frame("undecodable", <<>>, [x |-> 0], bytes)

\* A CDC value that is no frame of the protocol.
MalformedFrame(value) == Frame("malformed", <<>>, [x |-> 0], encode_value(value))

T_RESULT == <<114, 101, 115, 117, 108, 116>>                        \* "result"
K_FLAG == <<107>>                                                   \* "k"
TEXT_OK == <<111, 107>>                                             \* "ok"
TEXT_D == <<100>>                                                   \* "d"
TEXT_L == <<108>>                                                   \* "l"
CMD_NAME == <<110, 111, 111, 112>>                                  \* "noop"

CallArgs == <<INTEGER(I64(1))>>
CallKwargs == << <<K_FLAG, BOOL(TRUE)>> >>

Inbound ==
    << ReplyFrame(Uuid(1), INTEGER(I64(7))),
       ReplyFrame(Uuid(1), STR(TEXT_OK)),
       ReplyFrame(Uuid(2), INTEGER(I64(7))),
       ReplyFrame(Uuid(2), STR(TEXT_OK)),
       ReplyFrame(Uuid(0), INTEGER(I64(7))),
       ReplyFrameRev(Uuid(1), STR(TEXT_OK)),
       ErrorFrame(Uuid(1), INDEX, TEXT_D, 7, TEXT_L, <<1, 2>>, TRUE),
       ErrorFrame(Uuid(1), INDEX, TEXT_D, 7, TEXT_L, <<1, 2>>, FALSE),
       ErrorFrame(Uuid(2), PYTHON, TEXT_D, -1, TEXT_L, <<>>, FALSE),
       WaitFrame,
       WaitFrameWithId(Uuid(1)),
       CallFrame(AddrA, CallArgs, CallKwargs, TRUE),
       CallFrame(AddrA, CallArgs, CallKwargs, FALSE),
       CallFrame(AddrB, <<>>, <<>>, TRUE),
       CallFrame(AddrNone, CallArgs, CallKwargs, TRUE),
       OtherFrame(T_RESULT),
       OtherFrame(T_REQUEST),
       \* a reply cut short
       UndecodableFrame(Take(ReplyFrame(Uuid(1), INTEGER(I64(7))).bytes, 20)),
       \* a discriminant that is none
       UndecodableFrame(<<21>>),
       \* a value that is no map
       MalformedFrame(INTEGER(I64(7))),
       \* a map without `type`
       MalformedFrame(MAPSEQ(<< <<ID, STR(Uuid(1))>> >>)),
       \* a map whose `type` is no string
       MalformedFrame(MAPSEQ(<< <<TYPE, INTEGER(I64(1))>> >>)),
       \* a reply without `value`
       MalformedFrame(MAPSEQ(<< <<TYPE, STR(T_REPLY)>>, <<ID, STR(Uuid(1))>> >>)),
       \* replies to a TRANSLATE request: a translation, a translation that
       \* is no string, a map without one
       ReplyFrame(Uuid(2), MAPSEQ(<< <<K_TRANSLATION, STR(TEXT_D)>>, <<K_FLAG, NONE>> >>)),
       ReplyFrame(Uuid(2), MAPSEQ(<< <<K_TRANSLATION, INTEGER(I64(7))>> >>)),
       ReplyFrame(Uuid(2), MAPSEQ(<< <<K_FLAG, STR(TEXT_D)>> >>)),
       \* the reply to an EQUAL request
       ReplyFrame(Uuid(2), BOOL(FALSE)),
       \* call frames with a key of the wrong variant: a value that is no
       \* callable, args that are no list, kwargs that are no map
       MalformedFrame(MAPSEQ(<< <<TYPE, STR(T_CALL)>>, <<VALUE, INTEGER(I64(1))>> >>)),
       MalformedFrame(MAPSEQ(<< <<TYPE, STR(T_CALL)>>, <<ARGS, INTEGER(I64(1))>>,
                                <<KWARGS, MAPSEQ(<<>>)>>,
                                <<VALUE, CALLABLE_AT("peer", AddrA)>> >>)),
       MalformedFrame(MAPSEQ(<< <<TYPE, STR(T_CALL)>>, <<ARGS, LIST(<<>>)>>,
                                <<KWARGS, LIST(<<>>)>>,
                                <<VALUE, CALLABLE_AT("peer", AddrA)>> >>)) >>

\* The allocation limits of the hosts the model runs on (see Reserved).
HostCaps == {-1, 1024}

\* ----------------------------------------------------------------- state

VARIABLES
    pc,          \* "start", "idle", "awaiting" (inside the read loop), "panicked"
    slot,        \* GOM_CONNECTION holds Some(connection)
    borrowed,    \* the RefCell of GOM_CONNECTION is mutably borrowed
    caller,      \* who called request: "register", "execute_command", "tr", "equals",
                 \* "item" (another method of Item), "none"
    request_id,  \* the id the running (or the last) request waits for
    uuids,       \* how many ids Uuid::new_v4 has handed out
    replies,     \* Conntection.replies
    registry,    \* Conntection.encoder.registeredc_callables
    sent,        \* the values sent on the socket, oldest first
    reads,       \* the frames (indices of Inbound) read by the running request
    called,      \* the callables invoked by the running request, with arguments
    result,      \* what the last call of the facade or of request returned
    why,         \* the panic that ended the thread, "" while it runs
    obj,         \* the value last handed to CdcEncoder::encode
    buffer,      \* the bytes CdcEncoder::encode returned for it
    decoded,     \* the last call of CdcEncoder::decode_value: its input and result
    config,      \* the last call of parse_connection_config: its input and result
    tr_call,     \* the running (or the last) call of tr: its text and what it returned
    item_call, \* the running (or the last) call of Item::equals: the items, the result
    registered_types,  \* TypeRegistry.registered_types
    cached_instances,  \* TypeRegistry.cached_instances
    type_log,    \* the calls made on the TypeRegistry, oldest first
    conversion   \* the last direct call of ConnectionError::from: its input and result

\* The variables only direct calls of the codec change.
codec == <<obj, buffer, decoded>>

\* The variables of parse_connection_config, of the TypeRegistry and of
\* direct calls of ConnectionError::from, which no request and no call of the
\* codec changes.
library == <<config, registered_types, cached_instances, type_log, conversion>>

vars == <<pc, slot, borrowed, caller, request_id, uuids, replies, registry, sent, reads,
          called, result, why, obj, buffer, decoded, config, tr_call, item_call,
          registered_types,
          cached_instances, type_log, conversion>>

NoResult == [id |-> <<>>, res |-> [kind |-> "None"]]

NoDecoded == [input |-> <<>>, cap |-> -1, out |-> [kind |-> "None"]]

NoConfig == [api_url |-> <<>>, uuid |-> <<>>, out |-> [kind |-> "None"]]

\* No call of tr yet: `out` is <<>> until tr returns, then <<the String>>.
NoTr == [text |-> <<>>, out |-> <<>>]

\* No call of Item::equals yet: `out` is <<>> until equals returns, then
\* <<the Result>>.
NoItemCall == [method |-> "", self |-> <<>>, args |-> <<>>, out |-> <<>>]

\* Every variable of the library and of tr as the process starts.
NoConversion == [err |-> <<>>, out |-> <<>>]

InitLibrary ==
    /\ config = NoConfig
    /\ tr_call = NoTr
    /\ item_call = NoItemCall
    /\ registered_types = EmptyMap
    /\ cached_instances = EmptyMap
    /\ type_log = <<>>
    /\ conversion = NoConversion

Init ==
    /\ pc = "start"
    /\ slot = FALSE
    /\ borrowed = FALSE
    /\ caller = "none"
    /\ request_id = <<>>
    /\ uuids = 0
    /\ replies = EmptyMap
    /\ registry = EmptyMap
    /\ sent = <<>>
    /\ reads = <<>>
    /\ called = <<>>
    /\ result = NoResult
    /\ why = ""
    /\ obj = NONE
    /\ buffer = <<>>
    /\ decoded = NoDecoded
    /\ InitLibrary

\* A panic unwinds the thread: the borrow is released, nothing runs after it.
Panic(message) ==
    /\ pc' = "panicked"
    /\ why' = message
    /\ borrowed' = FALSE
    /\ caller' = "none"

\* Conntection::request up to its first read: a fresh id, the frame, send.
\* send encodes first (which fills the registry), then writes to the socket.
StartRequest(command, params, by, send_ok) ==
    LET id == Uuid(uuids + 1)
        frame == request_frame(API_KEY, id, command, params)
    IN /\ uuids' = uuids + 1
       /\ request_id' = id
       /\ registry' = registered(registry, frame)
       /\ reads' = <<>>
       /\ called' = <<>>
       /\ UNCHANGED <<replies, result, slot, codec, library>>
       /\ IF send_ok
          THEN /\ sent' = Append(sent, frame)
               /\ pc' = "awaiting"
               /\ caller' = by
               /\ borrowed' = (by \in {"execute_command", "tr", "equals", "item"})
               /\ why' = why
          ELSE /\ sent' = sent
               /\ Panic("Could not send the request!")

\* An initialisation that fills the slot although no connection was made.
\* C13 tells it from InitializeFails.
InitializeFails_Installs ==
    /\ pc = "start"
    /\ pc' = "idle"
    /\ slot' = TRUE
    /\ UNCHANGED <<codec, library, tr_call, item_call, borrowed, caller, request_id, uuids, replies, registry, sent, reads,
                   called, result, why>>

\* initialize_gom_connection when no URL is set or the connection fails: the
\* slot stays empty.
InitializeFails ==
    /\ pc = "start"
    /\ pc' = "idle"
    /\ UNCHANGED <<codec, library, tr_call, item_call, slot, borrowed, caller, request_id, uuids, replies, registry, sent, reads,
                   called, result, why>>

\* initialize_gom_connection with Conntection::init succeeding: register.
Initialize ==
    /\ pc = "start"
    /\ \E send_ok \in BOOLEAN :
          StartRequest("REGISTER", register_params(INTERPRETER_ID, CALLER_LABEL),
                       "register", send_ok)
    /\ UNCHANGED <<tr_call, item_call>>

\* execute_command with a connection in the slot.
ExecuteCommand ==
    /\ pc = "idle"
    /\ slot
    /\ uuids < MaxRequests
    /\ \E args \in ArgChoices, send_ok \in BOOLEAN :
          StartRequest("COMMAND", command_params(CMD_NAME, args, <<>>),
                       "execute_command", send_ok)
    /\ UNCHANGED <<tr_call, item_call>>

\* execute_command with the slot empty: Err(ConnectionError::Request).
ExecuteCommandNoConnection ==
    /\ pc = "idle"
    /\ ~slot
    /\ result' = [id |-> <<>>, res |-> [kind |-> "Err", err |-> [kind |-> "Request"]]]
    /\ UNCHANGED <<codec, library, tr_call, item_call, pc, slot, borrowed, caller, request_id, uuids, replies, registry, sent,
                   reads, called, why>>

\* What one round of the read loop does with a message, as a record:
\* [to |-> "panic", why, calls] or [to |-> "loop", replies, out, calls],
\* where out are the values sent and calls the callables invoked in this
\* round.  A round can panic after it invoked the callable: the call is made
\* before its result is sent.
Panics(message) == [to |-> "panic", why |-> message, calls |-> <<>>]

PanicsAfter(message, calls) == [to |-> "panic", why |-> message, calls |-> calls]

Loops(replies_, out, calls) == [to |-> "loop", replies |-> replies_, out |-> out, calls |-> calls]

\* execute_command called by a callable while the read loop runs:
\* GOM_CONNECTION.with(|c| c.borrow_mut() ...).  With the RefCell borrowed by
\* the facade call that runs the read loop, borrow_mut panics; with it free
\* the slot is empty (request runs outside a borrow only for register, before
\* the slot is filled) and the call returns Err(Request).
nested_execute_command(borrowed_, slot_) ==
    IF borrowed_ THEN [kind |-> "BorrowMutError"]
    ELSE [kind |-> "Err", err |-> [kind |-> "Request"]]

\* The call arm: the callable, args and kwargs of the frame (a key that is
\* missing fails the `expect`, a value of another variant fails expect_T),
\* the call, the result sent back.  The callable has run when its own
\* execute_command panics on the borrowed RefCell or when the send fails.
call_arm(msg_dict, replies_, borrowed_, slot_, send_ok) ==
    IF VALUE \notin DOMAIN msg_dict THEN Panics("Missing value key in call")
    ELSE IF msg_dict[VALUE].t # "CALLABLE" THEN Panics("Expected CALLABLE")
    ELSE IF ARGS \notin DOMAIN msg_dict THEN Panics("Missing args key in call")
    ELSE IF msg_dict[ARGS].t # "LIST" THEN Panics("Expected List")
    ELSE IF KWARGS \notin DOMAIN msg_dict THEN Panics("Missing kwargs key in call")
    ELSE IF msg_dict[KWARGS].t # "MAP" THEN Panics("Expected MAP")
    ELSE LET func == msg_dict[VALUE].f
             args == msg_dict[ARGS].items
             kwargs == msg_dict[KWARGS].m
             nested == IF func = "cb_nested" THEN nested_execute_command(borrowed_, slot_)
                       ELSE [kind |-> "None"]
             call == <<[f |-> func, args |-> args, kwargs |-> kwargs]>>
         IN IF nested.kind = "BorrowMutError"
            THEN PanicsAfter("already borrowed: BorrowMutError", call)
            ELSE IF ~send_ok
            THEN PanicsAfter("Failed to send call result back to server!", call)
            ELSE Loops(replies_, <<Invoke(func, args, kwargs, nested)>>, call)

\* The body of the read loop after socket.read(): decode, classify, dispatch.
on_message(msg, request_id_, replies_, borrowed_, slot_, send_ok) ==
    IF ~msg.ok
    THEN Panics(IF msg.err = "Abort" THEN "capacity overflow or allocation failure"
                ELSE "Couldn't decode the a reply from the server")
    ELSE IF msg.val.t # "MAP" THEN Panics("Expected MAP")
    ELSE IF TYPE \notin DOMAIN msg.val.m THEN Panics("Type missing from msg dict")
    ELSE IF msg.val.m[TYPE].t # "STRING" THEN Panics("Expected STRING")
    ELSE
    LET msg_type == msg.val.m[TYPE].s
        msg_dict == Remove(msg.val.m, TYPE)
        arm == classify(msg_type)
    IN CASE arm = "error" ->
              LET reply == error_arm(msg_dict)
              IN IF ~reply.ok THEN Panics("Missing key in error")
                 ELSE Loops(Insert(replies_, reply_key(request_id_, msg_dict),
                                   REPLY_ERROR(reply.val)), <<>>, <<>>)
         [] arm = "reply" ->
              IF VALUE \notin DOMAIN msg_dict THEN Panics("Missing value key in reply")
              ELSE Loops(Insert(replies_, reply_key(request_id_, msg_dict),
                                REPLY_VALUE(msg_dict[VALUE])), <<>>, <<>>)
         [] arm = "wait" -> Loops(replies_, <<>>, <<>>)
         [] arm = "call" -> call_arm(msg_dict, replies_, borrowed_, slot_, send_ok)
         [] OTHER -> Panics("Unknown message type received")

\* Item::to_map: id, category and stage, in insertion order.
to_map(item) ==
    << <<ID, STR(item.id)>>, <<K_CATEGORY, INTEGER(I64(item.category))>>,
       <<K_STAGE, INTEGER(I64(item.stage))>> >>

\* Item::equals: the parameters of the EQUAL request.
equals_params(self, other) ==
    << <<K_ITEM, MAPSEQ(to_map(self))>>, <<K_OTHER_ITEM, MAPSEQ(to_map(other))>> >>

\* A comparison that looks at the stage too.  C38 tells it from same_item.
same_item_WithStage(self, other) ==
    self.category = other.category /\ self.id = other.id /\ self.stage = other.stage

\* The condition of the fast path of Item::equals.
same_item(self, other) == self.category = other.category /\ self.id = other.id

\* The request of a method of Item other than equals: the command and the
\* parameters, in insertion order.  An Option argument is a sequence of at
\* most one element.
item_request(method, self, args) ==
    LET item == <<K_ITEM, MAPSEQ(to_map(self))>>
    IN CASE method = "get" ->
              [command |-> "GET",
               params |-> <<item, <<K_NAME, STR(args.key)>> >>
                          \o [n \in 1..Len(args.index) |-> <<K_INDEX, INTEGER(args.index[n])>>]]
         [] method = "get_tokens" -> [command |-> "TOKENS", params |-> <<item>>]
         [] method = "filter" ->
              [command |-> "FILTER",
               params |-> <<item, <<K_EXPRESSION, STR(args.expression)>> >>
                          \o [n \in 1..Len(args.condition) |->
                                 <<K_CONDITION, STR(args.condition[n])>>]]
         [] method = "less_than" ->
              [command |-> "LESS",
               params |-> <<item, <<K_OTHER_ITEM, MAPSEQ(to_map(args.other))>> >>]
         [] method = "get_attr" ->
              [command |-> "GETATTR",
               params |-> <<item, <<K_NAME, STR(args.name)>>,
                            <<K_STAGE, INTEGER(I64(self.stage))>> >>]
         [] method = "set_attr" ->
              [command |-> "SETATTR",
               params |-> <<item, <<K_NAME, STR(args.name)>>, <<VALUE, args.value>> >>]
         [] method = "get_item" ->
              [command |-> "KEY", params |-> <<item, <<K_NAME, STR(args.key)>> >>]
         [] method \in {"len", "is_empty"} -> [command |-> "LEN", params |-> <<item>>]
         [] method = "repr" -> [command |-> "REPR", params |-> <<item>>]
         [] method = "doc" ->
              [command |-> "DOC", params |-> << <<K_OBJECT, MAPSEQ(to_map(self))>> >>]

\* A method of Item other than equals after conn.request returned: get,
\* get_tokens, filter, get_attr and get_item hand the Result on; set_attr
\* returns Ok(()) for any value; less_than wants a Bool, len an Integer
\* (is_empty maps it to len == 0), repr and doc a String, and anything else is
\* Err(Request).
item_result(method, r) ==
    IF r.kind # "Ok" \/ method \in {"get", "get_tokens", "filter", "get_attr", "get_item"}
    THEN r
    ELSE LET want == CASE method = "less_than" -> "BOOL"
                       [] method \in {"len", "is_empty"} -> "INTEGER"
                       [] method \in {"repr", "doc"} -> "STRING"
                       [] OTHER -> r.value.t
         IN IF r.value.t # want THEN [kind |-> "Err", err |-> [kind |-> "Request"]]
            ELSE CASE method = "set_attr" -> [kind |-> "Ok", value |-> "()"]
                   [] method = "less_than" -> [kind |-> "Ok", value |-> r.value.b]
                   [] method = "len" -> [kind |-> "Ok", value |-> r.value.i]
                   [] method = "is_empty" -> [kind |-> "Ok", value |-> r.value.i = I64(0)]
                   [] method \in {"repr", "doc"} -> [kind |-> "Ok", value |-> r.value.s]

\* Item::equals after conn.request returned: `?` hands an Err on, a Bool is
\* the answer, any other value is Err(Request).
equals_result(r) ==
    IF r.kind # "Ok" THEN r
    ELSE IF r.value.t = "BOOL" THEN [kind |-> "Ok", value |-> r.value.b]
    ELSE [kind |-> "Err", err |-> [kind |-> "Request"]]

\* tr after conn.request returned: the String under "translation" of a Map
\* result, the text itself for anything else.
tr_result(text, r) ==
    IF /\ r.kind = "Ok"
       /\ r.value.t = "MAP"
       /\ K_TRANSLATION \in DOMAIN r.value.m
       /\ r.value.m[K_TRANSLATION].t = "STRING"
    THEN r.value.m[K_TRANSLATION].s
    ELSE text

\* A return that leaves the entry it returns in the table.  C32 tells it
\* from Returns.
Returns_KeepsEntry(replies_) ==
    LET r == request_result(replies_[request_id])
    IN /\ replies' = replies_
       /\ result' = [id |-> request_id, res |-> r]
       /\ slot' = IF caller = "register" THEN r.kind = "Ok" ELSE slot
       /\ tr_call' = IF caller = "tr"
                     THEN [tr_call EXCEPT !.out = <<tr_result(tr_call.text, r)>>]
                     ELSE tr_call
       /\ item_call' = IF caller = "equals"
                       THEN [item_call EXCEPT !.out = <<equals_result(r)>>]
                       ELSE IF caller = "item"
                       THEN [item_call EXCEPT !.out = <<item_result(item_call.method, r)>>]
                       ELSE item_call
       /\ borrowed' = FALSE
       /\ caller' = "none"
       /\ pc' = "idle"

\* The end of Conntection::request once the awaited id is in the table: the
\* entry is removed and becomes the Result; then the caller goes on
\* (initialize_gom_connection fills the slot on Ok, execute_command releases
\* its borrow).
Returns(replies_) ==
    LET r == request_result(replies_[request_id])
    IN /\ replies' = Remove(replies_, request_id)
       /\ result' = [id |-> request_id, res |-> r]
       /\ slot' = IF caller = "register" THEN r.kind = "Ok" ELSE slot
       /\ tr_call' = IF caller = "tr"
                     THEN [tr_call EXCEPT !.out = <<tr_result(tr_call.text, r)>>]
                     ELSE tr_call
       /\ item_call' = IF caller = "equals"
                       THEN [item_call EXCEPT !.out = <<equals_result(r)>>]
                       ELSE IF caller = "item"
                       THEN [item_call EXCEPT !.out = <<item_result(item_call.method, r)>>]
                       ELSE item_call
       /\ borrowed' = FALSE
       /\ caller' = "none"
       /\ pc' = "idle"

\* One round of the read loop of Conntection::request: read a message and
\* handle it; when the awaited id is in `replies` the loop ends, the entry is
\* removed and returned, and the caller goes on (register fills the slot on
\* Ok, execute_command releases its borrow, tr picks the translation).
Recv ==
    /\ pc = "awaiting"
    /\ Len(reads) < MaxReads
    /\ \E i \in 1..Len(Inbound), cap \in HostCaps, send_ok \in BOOLEAN :
          \E msg \in {decode_value(Inbound[i].bytes, [reg |-> registry, cap |-> cap])} :
          \E o \in {on_message(msg, request_id, replies, borrowed, slot, send_ok)} :
             /\ reads' = Append(reads, i)
             /\ UNCHANGED <<request_id, uuids, codec, library>>
             /\ IF o.to = "panic"
                THEN /\ Panic(o.why)
                     /\ called' = called \o o.calls
                     /\ UNCHANGED <<slot, replies, registry, sent, result, tr_call, item_call>>
                ELSE /\ sent' = sent \o o.out
                     /\ registry' = registered_all(registry, o.out)
                     /\ called' = called \o o.calls
                     /\ why' = why
                     /\ IF resolved(o.replies, request_id)
                        THEN Returns(o.replies)
                        ELSE /\ replies' = o.replies
                             /\ UNCHANGED <<result, slot, borrowed, caller, pc, tr_call, item_call>>

\* socket.read() fails: `.expect("Couldn't read from the socket!")`.
RecvFails ==
    /\ pc = "awaiting"
    /\ Panic("Couldn't read from the socket!")
    /\ UNCHANGED <<slot, request_id, uuids, replies, registry, sent, reads, called, result,
                   codec, library, tr_call, item_call>>

Next ==
    \/ InitializeFails
    \/ Initialize
    \/ ExecuteCommand
    \/ ExecuteCommandNoConnection
    \/ Recv
    \/ RecvFails

Spec == Init /\ [][Next]_vars

\* ------------------------------------------------ the facade's tr (lib.rs)

TEXT_HELLO == <<72, 105>>                                           \* "Hi"
TEXT_TEST == <<84, 101, 115, 116>>                                  \* "Test"
TR_ID == <<116, 101, 115, 116, 95, 105, 100>>                       \* "test_id"

\* The texts and ids the host passes to tr.
TrTexts == {TEXT_HELLO, TEXT_TEST}
TrIds == {<<>>, <<TR_ID>>}

\* tr with a connection in the slot: the TRANSLATE request, made inside the
\* borrow of GOM_CONNECTION.
Tr ==
    /\ pc = "idle"
    /\ slot
    /\ uuids < MaxRequests
    /\ \E text \in TrTexts, id \in TrIds, send_ok \in BOOLEAN :
          /\ StartRequest("TRANSLATE", tr_params(text, id), "tr", send_ok)
          /\ tr_call' = [text |-> text, out |-> <<>>]
    /\ UNCHANGED item_call

\* tr with the slot empty: the text comes back, nothing is sent.
TrNoConnection ==
    /\ pc = "idle"
    /\ ~slot
    /\ \E text \in TrTexts :
          tr_call' = [text |-> text, out |-> <<text>>]
    /\ UNCHANGED <<codec, library, item_call, pc, slot, borrowed, caller, request_id, uuids, replies,
                   registry, sent, reads, called, result, why>>

NextTr ==
    \/ InitializeFails
    \/ Initialize
    \/ Tr
    \/ TrNoConnection
    \/ Recv
    \/ RecvFails

SpecTr == Init /\ [][NextTr]_vars

\* --------------------------------------- Item::equals (src/src/lib.rs)

\* The items the host compares: two that differ in the stage only, one of
\* another category, one with another id.
EqualsItems == {Item(TEXT_D, 3, -2), Item(TEXT_D, 3, 5), Item(TEXT_D, 4, -2), Item(TEXT_L, 3, -2)}

\* equals on two items of the same id and category: Ok(true) before
\* GOM_CONNECTION is looked at.
EqualsSame ==
    /\ pc = "idle"
    /\ \E self \in EqualsItems, other \in EqualsItems :
          /\ same_item(self, other)
          /\ item_call' = [method |-> "equals", self |-> self, args |-> [other |-> other],
                           out |-> <<[kind |-> "Ok", value |-> TRUE]>>]
    /\ UNCHANGED <<codec, library, tr_call, pc, slot, borrowed, caller, request_id, uuids,
                   replies, registry, sent, reads, called, result, why>>

\* equals on any other two items with a connection in the slot: the EQUAL
\* request, made inside the borrow of GOM_CONNECTION.
Equals ==
    /\ pc = "idle"
    /\ slot
    /\ uuids < MaxRequests
    /\ \E self \in EqualsItems, other \in EqualsItems, send_ok \in BOOLEAN :
          /\ ~same_item(self, other)
          /\ StartRequest("EQUAL", equals_params(self, other), "equals", send_ok)
          /\ item_call' = [method |-> "equals", self |-> self, args |-> [other |-> other],
                           out |-> <<>>]
    /\ UNCHANGED tr_call

\* equals on any other two items with the slot empty: Err(Request).
EqualsNoConnection ==
    /\ pc = "idle"
    /\ ~slot
    /\ \E self \in EqualsItems, other \in EqualsItems :
          /\ ~same_item(self, other)
          /\ item_call' = [method |-> "equals", self |-> self, args |-> [other |-> other],
                           out |-> <<[kind |-> "Err", err |-> [kind |-> "Request"]]>>]
    /\ UNCHANGED <<codec, library, tr_call, pc, slot, borrowed, caller, request_id, uuids,
                   replies, registry, sent, reads, called, result, why>>

NextEquals ==
    \/ InitializeFails
    \/ Initialize
    \/ EqualsSame
    \/ Equals
    \/ EqualsNoConnection
    \/ Recv
    \/ RecvFails

SpecEquals == Init /\ [][NextEquals]_vars

\* ------------------------- the other methods of Item (src/src/lib.rs)

\* An item of the model and an API item, whose id starts with "gom.".
ItemSelves == {Item(TEXT_D, 3, -2), Item(GOM_PREFIX \o TEXT_D, 0, -1)}

\* The calls the host makes: every method, each Option argument absent and
\* present.
ItemCalls ==
    {[method |-> "get", args |-> [key |-> TEXT_D, index |-> ix]] : ix \in {<<>>, <<I64(1)>>}}
    \cup {[method |-> "filter", args |-> [expression |-> TEXT_D, condition |-> c]] :
             c \in {<<>>, <<TEXT_L>>}}
    \cup {[method |-> "less_than", args |-> [other |-> Item(TEXT_L, 3, 5)]],
          [method |-> "get_attr", args |-> [name |-> TEXT_D]],
          [method |-> "set_attr", args |-> [name |-> TEXT_D, value |-> INTEGER(I64(1))]],
          [method |-> "get_item", args |-> [key |-> TEXT_D]]}
    \cup {[method |-> m, args |-> <<>>] : m \in {"get_tokens", "len", "is_empty", "repr", "doc"}}

\* self.id.starts_with("gom.")
starts_with_gom(self) ==
    Len(self.id) >= Len(GOM_PREFIX) /\ SubSeq(self.id, 1, Len(GOM_PREFIX)) = GOM_PREFIX

\* repr on an item whose id starts with "gom.": Ok(id) before GOM_CONNECTION
\* is looked at.
ReprApiItem ==
    /\ pc = "idle"
    /\ \E self \in ItemSelves :
          /\ starts_with_gom(self)
          /\ item_call' = [method |-> "repr", self |-> self, args |-> <<>>,
                           out |-> <<[kind |-> "Ok", value |-> self.id]>>]
    /\ UNCHANGED <<codec, library, tr_call, pc, slot, borrowed, caller, request_id, uuids,
                   replies, registry, sent, reads, called, result, why>>

\* A method of Item with a connection in the slot: its request, made inside
\* the borrow of GOM_CONNECTION.
ItemRequest ==
    /\ pc = "idle"
    /\ slot
    /\ uuids < MaxRequests
    /\ \E self \in ItemSelves, c \in ItemCalls, send_ok \in BOOLEAN :
          /\ ~(c.method = "repr" /\ starts_with_gom(self))
          /\ \E q \in {item_request(c.method, self, c.args)} :
                StartRequest(q.command, q.params, "item", send_ok)
          /\ item_call' = [method |-> c.method, self |-> self, args |-> c.args, out |-> <<>>]
    /\ UNCHANGED tr_call

\* A method of Item with the slot empty: Err(Request).
ItemNoConnection ==
    /\ pc = "idle"
    /\ ~slot
    /\ \E self \in ItemSelves, c \in ItemCalls :
          /\ ~(c.method = "repr" /\ starts_with_gom(self))
          /\ item_call' = [method |-> c.method, self |-> self, args |-> c.args,
                           out |-> <<[kind |-> "Err", err |-> [kind |-> "Request"]]>>]
    /\ UNCHANGED <<codec, library, tr_call, pc, slot, borrowed, caller, request_id, uuids,
                   replies, registry, sent, reads, called, result, why>>

NextItem ==
    \/ InitializeFails
    \/ Initialize
    \/ ReprApiItem
    \/ ItemRequest
    \/ ItemNoConnection
    \/ Recv
    \/ RecvFails

SpecItem == Init /\ [][NextItem]_vars

\* ------------------------------- a peer that answers every request it got

\* What a peer that keeps the protocol delivers to a running request: wait
\* frames, call frames, replies and errors, and with the last message the
\* request may read (MaxReads) a reply or an error frame that carries the
\* awaited id.
Answers(i, n) ==
    IF n = MaxReads
    THEN Inbound[i].kind \in {"reply", "error"} /\ Inbound[i].id = request_id
    ELSE Inbound[i].kind \in {"wait", "call", "reply", "error"}

\* One round of the read loop with such a peer on the other side.
RecvAnswered ==
    /\ pc = "awaiting"
    /\ Recv
    /\ Answers(reads'[Len(reads')], Len(reads'))

NextAnswered ==
    \/ InitializeFails
    \/ Initialize
    \/ ExecuteCommand
    \/ ExecuteCommandNoConnection
    \/ RecvAnswered

\* The loop takes one more message off the socket.
ReadsOn ==
    /\ pc = "awaiting"
    /\ Len(reads) < MaxReads
    /\ \E i \in 1..Len(Inbound) : reads' = Append(reads, i)

\* socket.read() blocks until the peer's next message is there, and the
\* thread inside request does nothing but run the loop: while the loop is
\* running and the peer has a message left, the next round is taken.
SpecAnswered == Init /\ [][NextAnswered]_vars /\ WF_reads(ReadsOn)

\* ------------------- ConnectionError::from, call by call (src/src/network.rs)

\* The reply::Error values the conversion is run over.
ErrorTypes == {ABORT, ATTRIBUTE, IMPORT, INDEX, PYTHON, <<>>, TEXT_D}

Errors ==
    [error_type : ErrorTypes, description : {<<>>, TEXT_D}, code : {I64(0), I64(7), I64(-1)},
     log : {<<>>, TEXT_L}, value : {<<>>, <<1, 2>>}]

\* No connection, no codec call: only the conversion is called.
InitFrom ==
    /\ pc = "from"
    /\ slot = FALSE
    /\ borrowed = FALSE
    /\ caller = "none"
    /\ request_id = <<>>
    /\ uuids = 0
    /\ replies = EmptyMap
    /\ registry = EmptyMap
    /\ sent = <<>>
    /\ reads = <<>>
    /\ called = <<>>
    /\ result = NoResult
    /\ why = ""
    /\ obj = NONE
    /\ buffer = <<>>
    /\ decoded = NoDecoded
    /\ InitLibrary

\* ConnectionError::from(err) on a reply::Error.
ConnectionErrorFrom ==
    /\ pc = "from"
    /\ \E err \in Errors : conversion' = [err |-> err, out |-> <<From(err)>>]
    /\ UNCHANGED <<pc, slot, borrowed, caller, request_id, uuids, replies, registry, sent,
                   reads, called, result, why, codec, tr_call, item_call, config,
                   registered_types, cached_instances, type_log>>

SpecFrom == InitFrom /\ [][ConnectionErrorFrom]_vars

\* ------------------------------------------- the codec, call by call

\* f64 values as their eight little-endian bytes: 1.0, 0.0, -0.0 and a NaN.
F_ONE == <<0, 0, 0, 0, 0, 0, 240, 63>>
F_ZERO == <<0, 0, 0, 0, 0, 0, 0, 0>>
F_NEG_ZERO == <<0, 0, 0, 0, 0, 0, 0, 128>>
F_NAN == <<0, 0, 0, 0, 0, 0, 248, 127>>

\* i64::MIN and a number above 2^32.
I64_MIN == [hi |-> -2147483647 - 1, lo |-> 0]
I64_BIG == [hi |-> 1, lo |-> 5]

\* Whether the f64 of these bytes is a NaN: exponent all ones, mantissa not 0.
is_nan(bits) ==
    /\ bits[8] % 128 = 127
    /\ bits[7] >= 240
    /\ (bits[7] # 240 \/ \E n \in 1..6 : bits[n] # 0)

\* Whether the f64 of these bytes is 0.0 or -0.0.
is_zero(bits) == (\A n \in 1..7 : bits[n] = 0) /\ bits[8] \in {0, 128}

\* f64's PartialEq: a NaN equals nothing, the two zeros are equal.
f64_eq(x, y) == ~is_nan(x) /\ ~is_nan(y) /\ (x = y \/ (is_zero(x) /\ is_zero(y)))

RECURSIVE eq(_, _)
\* The derived PartialEq of CdcValue (and of the structs inside it), on
\* values whose maps are HashMaps.
eq(a, b) ==
    IF a.t # b.t THEN FALSE
    ELSE CASE a.t = "FLOAT" -> f64_eq(a.bits, b.bits)
           [] a.t = "VEC2D" -> f64_eq(a.x, b.x) /\ f64_eq(a.y, b.y)
           [] a.t = "VEC3D" -> f64_eq(a.x, b.x) /\ f64_eq(a.y, b.y) /\ f64_eq(a.z, b.z)
           [] a.t = "LIST" ->
                 /\ Len(a.items) = Len(b.items)
                 /\ \A n \in 1..Len(a.items) : eq(a.items[n], b.items[n])
           [] a.t = "MAP" ->
                 /\ DOMAIN a.m = DOMAIN b.m
                 /\ \A k \in DOMAIN a.m : eq(a.m[k], b.m[k])
           [] a.t = "TRAIT" ->
                 /\ a.id = b.id
                 /\ eq(LIST(a.args), LIST(b.args))
                 /\ eq(MAP(a.kwargs), MAP(b.kwargs))
           [] a.t = "OBJECT" ->
                 /\ a.type_id = b.type_id
                 /\ a.repr = b.repr
                 /\ eq(MAP(a.attributes), MAP(b.attributes))
           [] a.t = "ARRAY" ->
                 /\ eq(a.project, b.project)
                 /\ eq(a.item, b.item)
                 /\ a.key = b.key
                 /\ a.index = b.index
                 /\ a.selected = b.selected
                 /\ eq(LIST(a.transformation), LIST(b.transformation))
           [] a.t = "PACKAGE" ->
                 /\ a.reference = b.reference
                 /\ eq(MAP(a.metadata), MAP(b.metadata))
           [] OTHER -> a = b

RECURSIVE Unordered(_)
\* The HashMap a sequence of pairs is the iteration order of.
Collected(pairs) ==
    [k \in {pairs[n][1] : n \in 1..Len(pairs)} |->
        Unordered(pairs[CHOOSE n \in 1..Len(pairs) : pairs[n][1] = k][2])]

\* The CdcValue an encoder input stands for: its maps without their
\* iteration order, its callables without their address.
Unordered(v) ==
    CASE v.t = "LIST" -> LIST([n \in 1..Len(v.items) |-> Unordered(v.items[n])])
      [] v.t = "MAP" -> MAP(Collected(v.pairs))
      [] v.t = "CALLABLE" -> CALLABLE(v.f)
      [] v.t = "TRAIT" ->
            TRAIT(v.id, [n \in 1..Len(v.args) |-> Unordered(v.args[n])], Collected(v.kwargs))
      [] v.t = "OBJECT" -> OBJECT(v.type_id, v.repr, Collected(v.attributes))
      [] v.t = "ARRAY" ->
            ARRAY(Unordered(v.project), Unordered(v.item), v.key, v.index, v.selected,
                  [n \in 1..Len(v.transformation) |-> Unordered(v.transformation[n])])
      [] v.t = "PACKAGE" -> PACKAGE(v.reference, Collected(v.metadata))
      [] OTHER -> v

\* Strings of the values: "a", "b" and a two-byte character.
S_A == <<97>>
S_B == <<98>>
S_E_ACUTE == <<195, 169>>

AnItem == Item(S_A, 3, -2)

\* The values handed to encode that hold no callable: every variant, empty
\* and nested containers, containers with several elements.
PlainValues ==
    << NONE, BOOL(TRUE), BOOL(FALSE),
       INTEGER(I64(7)), INTEGER(I64(-1)), INTEGER(I64_MIN), INTEGER(I64_BIG),
       FLOAT(F_ONE), FLOAT(F_NEG_ZERO), FLOAT(F_NAN),
       STR(<<>>), STR(S_E_ACUTE),
       LIST(<<>>), LIST(<<INTEGER(I64(7)), STR(S_A)>>),
       LIST(<<LIST(<<NONE>>), BOOL(TRUE)>>),
       MAPSEQ(<<>>),
       MAPSEQ(<< <<S_A, INTEGER(I64(7))>>, <<S_B, LIST(<<NONE>>)>> >>),
       MAPSEQ(<< <<S_B, MAPSEQ(<< <<S_A, FLOAT(F_NAN)>> >>)>>, <<S_A, NONE>> >>),
       SLICE(<<>>, <<I64(7)>>), SLICE(<<I64(-1)>>, <<>>),
       ITEM(AnItem), ITEM(Item(<<>>, -1, 2147483647)),
       INDEXABLE(AnItem, S_B, I64(7)),
       COMMAND(CMD_NAME),
       BLOB(<<>>), BLOB(<<0, 255>>),
       ERROR(S_A, S_E_ACUTE, I64(-1)),
       TRAIT(S_A, <<INTEGER(I64(7))>>, << <<S_B, BOOL(TRUE)>> >>),
       OBJECT(S_A, S_B, << <<S_A, INTEGER(I64(7))>>, <<S_B, STR(S_A)>> >>),
       ARRAY(NONE, ITEM(AnItem), S_A, <<I64(7), I64(-1)>>, TRUE, <<>>),
       ARRAY(STR(S_A), NONE, <<>>, <<>>, FALSE, <<LIST(<<NONE>>)>>),
       PACKAGE(S_A, << <<S_B, BLOB(<<0, 255>>)>> >>),
       VEC2D(F_ONE, F_NEG_ZERO), VEC3D(F_ONE, F_ZERO, F_NAN),
       RESOURCE_ACCESS >>

\* The values handed to encode that hold a callable: alone, and followed by
\* further elements of a list, a map, a trait.
CallableValues(f, at) ==
    << CALLABLE_AT(f, at),
       LIST(<<CALLABLE_AT(f, at), INTEGER(I64(7))>>),
       MAPSEQ(<< <<S_A, CALLABLE_AT(f, at)>>, <<S_B, NONE>> >>),
       TRAIT(S_A, <<CALLABLE_AT(f, at)>>, <<>>) >>

\* Bytes appended to an encoding before it is decoded.
Suffixes == {<<>>, <<0>>, <<21, 4>>}

\* Bytes no encoder of this process wrote: containers that claim more
\* elements than bytes follow, callables with a handle that is no number or
\* that only another codec knows.
I64_HUGE == [hi |-> 2147483647, lo |-> -1]

ForeignInputs ==
    << <<Tag("LIST")>> \o to_le_bytes(I64(1025)) \o <<0, 0>>,
       <<Tag("LIST")>> \o to_le_bytes(I64_HUGE) \o <<0>>,
       <<Tag("LIST")>> \o to_le_bytes(I64(-1)),
       <<Tag("LIST")>> \o to_le_bytes(I64(3)) \o <<0>>,
       <<Tag("MAP")>> \o to_le_bytes(I64(1025)),
       <<Tag("MAP")>> \o to_le_bytes(I64_HUGE) \o encode_string(S_A) \o <<0>>,
       <<Tag("MAP")>> \o to_le_bytes(I64_MIN),
       <<Tag("LIST")>> \o to_le_bytes(I64(1)) \o <<Tag("MAP")>> \o to_le_bytes(I64(2000)),
       <<Tag("CALLABLE")>> \o encode_string(AddrNone) \o encode_string(RUST_FUNCTION),
       <<Tag("CALLABLE")>> \o encode_string(AddrA),
       <<Tag("CALLABLE")>> \o encode_string(<<43>> \o AddrB),
       <<Tag("CALLABLE")>> \o encode_string(S_A),
       <<Tag("CALLABLE")>> \o encode_string(U64_MAX_DIGITS \o <<48>>) >>

\* Frames whose length field is negative as i64, one for every length field
\* decode_value reads: string byte count, blob size, list and map counts,
\* object attribute count, array index-path length, package metadata count.
\* Bytes follow the field, so a loop over the count has something to read.
NegativeLengthInputs ==
    << <<Tag("STRING")>> \o to_le_bytes(I64(-1)) \o S_A,
       <<Tag("STRING")>> \o to_le_bytes(I64_MIN),
       <<Tag("BLOB")>> \o to_le_bytes(I64(-2)) \o <<1, 2, 3>>,
       <<Tag("COMMAND")>> \o to_le_bytes(I64(-1)) \o S_A,
       <<Tag("LIST")>> \o to_le_bytes(I64(-2)) \o <<0, 0>>,
       <<Tag("MAP")>> \o to_le_bytes(I64(-1)) \o encode_string(S_A) \o <<0>>,
       <<Tag("OBJECT")>> \o encode_string(S_A) \o encode_string(S_B)
           \o to_le_bytes(I64(-1)) \o encode_string(S_A) \o <<0>>,
       <<Tag("ARRAY"), 0, 0>> \o encode_string(S_A)
           \o to_le_bytes(I64(-1)) \o to_le_bytes(I64(7)) \o <<1, 0>>,
       <<Tag("PACKAGE")>> \o encode_string(S_A)
           \o to_le_bytes(I64_MIN) \o encode_string(S_B) \o <<0>> >>

\* One value of every variant, to put where a frame nests a value.  The
\* callable is one stored at AddrA.
SlotValues ==
    << NONE, BOOL(TRUE), INTEGER(I64(7)), FLOAT(F_ONE), STR(S_A), LIST(<<NONE>>),
       MAPSEQ(<< <<S_A, NONE>> >>), SLICE(<<>>, <<I64(7)>>), ITEM(AnItem),
       INDEXABLE(AnItem, S_B, I64(7)), COMMAND(CMD_NAME),
       CALLABLE_AT("cb_count", AddrA), ERROR(S_A, S_B, I64(7)),
       TRAIT(S_A, <<>>, <<>>), OBJECT(S_A, S_B, <<>>),
       ARRAY(NONE, NONE, S_A, <<>>, FALSE, <<>>), PACKAGE(S_A, <<>>),
       VEC2D(F_ONE, F_ZERO), VEC3D(F_ONE, F_ZERO, F_ONE), RESOURCE_ACCESS,
       BLOB(<<0, 255>>) >>

\* The bytes of a Slice frame: the tag, the start slot, the stop slot.
SliceFrame(start, stop) == <<Tag("SLICE")>> \o encode_value(start) \o encode_value(stop)

\* Slice frames with every variant in the start slot (the stop slot None),
\* then with every variant in the stop slot (the start slot an Integer).
SliceInputs ==
    [n \in 1..(2 * Len(SlotValues)) |->
        LET v == SlotValues[((n - 1) % Len(SlotValues)) + 1]
        IN IF n <= Len(SlotValues) THEN SliceFrame(v, NONE)
           ELSE SliceFrame(INTEGER(I64(7)), v)]

\* The bytes of an Indexable frame: the tag, the nested value, the token,
\* the size.
IndexableFrame(v, token, size) ==
    <<Tag("INDEXABLE")>> \o encode_value(v) \o encode_string(token) \o to_le_bytes(size)

\* Indexable frames with every variant as the nested value.
IndexableInputs ==
    [n \in 1..Len(SlotValues) |-> IndexableFrame(SlotValues[n], S_B, I64(7))]

\* Buffers whose first byte is no tag, alone and with bytes after it.
UnknownTagInputs ==
    << <<21>>, <<21>> \o to_le_bytes(I64(1)) \o <<0>>, <<22, 0>>, <<128>>,
       <<255>>, <<255>> \o encode_value(INTEGER(I64(7))) >>

\* An Array frame up to and including its selected flag: project and item
\* None, the key "a", an empty index path, selected.
ArrayHead ==
    <<Tag("ARRAY")>> \o encode_value(NONE) \o encode_value(NONE) \o encode_string(S_A)
        \o to_le_bytes(I64(0)) \o <<1>>

\* What follows the selected flag: a has-transformation byte and the bytes
\* after it.
ArrayTails ==
    << <<0>>, <<0, 0>>, <<0>> \o encode_value(INTEGER(I64(7))),
       <<1>> \o encode_value(INTEGER(I64(7))), <<2, 0>>,
       <<255>> \o encode_value(STR(S_A)) \o <<9>>, <<1>>, <<2, 21>> >>

\* Array frames with every has-transformation byte, and one that ends
\* before it.
ArrayInputs == <<ArrayHead>> \o [n \in 1..Len(ArrayTails) |-> ArrayHead \o ArrayTails[n]]

\* An Item frame as a peer writes it: category and stage are Integers of
\* the wire, eight bytes each.
ItemFrame(id, category, stage) ==
    <<Tag("ITEM")>> \o encode_string(id) \o to_le_bytes(category) \o to_le_bytes(stage)

\* Item frames with numbers inside and outside the range of an i32.
ItemNumbers == <<I64(3), I64(-2), I64(2147483647), I64_MIN, I64_BIG, I64_HUGE,
                 [hi |-> 0, lo |-> -1], [hi |-> -1, lo |-> 5]>>

ItemInputs ==
    [n \in 1..Len(ItemNumbers) |-> ItemFrame(S_A, ItemNumbers[n], I64(3))]
    \o [n \in 1..Len(ItemNumbers) |-> ItemFrame(<<>>, I64(-2), ItemNumbers[n])]

\* The pairs of Map frames in which a peer wrote a key more than once.
RepeatedKeyPairs ==
    << << <<S_A, INTEGER(I64(1))>>, <<S_A, INTEGER(I64(2))>> >>,
       << <<S_A, INTEGER(I64(1))>>, <<S_B, NONE>>, <<S_A, STR(S_B)>> >>,
       << <<S_B, LIST(<<NONE>>)>>, <<S_B, LIST(<<NONE>>)>>, <<S_B, BOOL(TRUE)>> >>,
       << <<S_A, NONE>>, <<S_B, NONE>>, <<S_B, INTEGER(I64(7))>>, <<S_A, INTEGER(I64(7))>> >>,
       << <<<<>>, MAPSEQ(<< <<S_A, NONE>>, <<S_A, BOOL(FALSE)>> >>)>>, <<<<>>, NONE>> >> >>

\* Those frames, alone and with bytes after them.
RepeatedKeyInputs ==
    [n \in 1..Len(RepeatedKeyPairs) |-> encode_value(MAPSEQ(RepeatedKeyPairs[n]))]
    \o [n \in 1..Len(RepeatedKeyPairs) |-> encode_value(MAPSEQ(RepeatedKeyPairs[n])) \o <<21, 4>>]

\* Handle strings that are no number of 64 bits: empty, a sign alone, a
\* minus sign, a letter or a blank next to the digits of a registered
\* handle, a fraction, a byte that is no UTF-8, 2^64.
NoHandles ==
    << <<>>, <<43>>, <<45, 49>>, AddrA \o <<97>>, <<32>> \o AddrA, AddrB \o <<32>>,
       <<49, 46, 53>>, <<255>>, <<49, 56, 52, 52, 54, 55, 52, 52, 48, 55, 51, 55, 48, 57,
                                 53, 53, 49, 54, 49, 54>> >>

\* Callable frames with such a handle, without and with the language tag.
NoHandleInputs ==
    [n \in 1..Len(NoHandles) |-> <<Tag("CALLABLE")>> \o encode_string(NoHandles[n])]
    \o [n \in 1..Len(NoHandles) |->
           <<Tag("CALLABLE")>> \o encode_string(NoHandles[n]) \o encode_string(RUST_FUNCTION)]

\* Every input of the decoder that no encode of this process returned.
DecoderInputs == ForeignInputs \o NegativeLengthInputs \o SliceInputs \o IndexableInputs
                 \o UnknownTagInputs \o ArrayInputs \o ItemInputs \o RepeatedKeyInputs
                 \o NoHandleInputs

\* A codec of its own: CdcEncoder::new(), nothing encoded, nothing decoded.
InitCodec ==
    /\ pc = "codec"
    /\ slot = FALSE
    /\ borrowed = FALSE
    /\ caller = "none"
    /\ request_id = <<>>
    /\ uuids = 0
    /\ replies = EmptyMap
    /\ registry = EmptyMap
    /\ sent = <<>>
    /\ reads = <<>>
    /\ called = <<>>
    /\ result = NoResult
    /\ why = ""
    /\ obj = NONE
    /\ buffer = <<>>
    /\ decoded = NoDecoded
    /\ InitLibrary

\* The orders in which `for (key, value) in map` can walk through a HashMap
\* of these pairs: any order, the hasher of a std HashMap being seeded at
\* random for every map.
Reorderings(pairs) ==
    {[n \in 1..Len(pairs) |-> pairs[p[n]]] :
        p \in {q \in [1..Len(pairs) -> 1..Len(pairs)] :
                  \A i, j \in 1..Len(pairs) : q[i] = q[j] => i = j}}

RECURSIVE Iterated(_)
RECURSIVE IteratedAll(_)
RECURSIVE IterationOrders(_)
\* The sequences whose n-th element is the n-th value with its maps in one of
\* their iteration orders.
IteratedAll(items) ==
    IF items = <<>> THEN {<<>>}
    ELSE {<<h>> \o t : h \in Iterated(Head(items)), t \in IteratedAll(Tail(items))}

\* The pairs of a map in any iteration order, the maps inside the values in
\* any of theirs.
IterationOrders(pairs) ==
    UNION {{[n \in 1..Len(r) |-> <<r[n][1], vs[n]>>] : vs \in IteratedAll(Seconds(r))} :
             r \in Reorderings(pairs)}

\* What encode_value can walk through when it is handed v: v with every map,
\* kwargs, attributes and metadata in one of its iteration orders.
Iterated(v) ==
    CASE v.t = "LIST" -> {LIST(x) : x \in IteratedAll(v.items)}
      [] v.t = "MAP" -> {MAPSEQ(x) : x \in IterationOrders(v.pairs)}
      [] v.t = "TRAIT" ->
            {TRAIT(v.id, a, k) : a \in IteratedAll(v.args), k \in IterationOrders(v.kwargs)}
      [] v.t = "OBJECT" ->
            {OBJECT(v.type_id, v.repr, a) : a \in IterationOrders(v.attributes)}
      [] v.t = "ARRAY" ->
            {ARRAY(x, i, v.key, v.index, v.selected, tr) :
                x \in Iterated(v.project), i \in Iterated(v.item),
                tr \in IteratedAll(v.transformation)}
      [] v.t = "PACKAGE" -> {PACKAGE(v.reference, x) : x \in IterationOrders(v.metadata)}
      [] OTHER -> {v}

\* CdcEncoder::encode(obj): the bytes of obj with its maps in the order the
\* HashMaps iterate in.
EncodeOf(v) ==
    /\ pc = "codec"
    /\ obj' = v
    /\ \E w \in Iterated(v) :
          /\ buffer' = encode_value(w)
          /\ registry' = registered(registry, w)
    /\ decoded' = NoDecoded
    /\ UNCHANGED <<pc, slot, borrowed, caller, request_id, uuids, replies, sent, reads,
                   called, result, why, library, tr_call, item_call>>

\* encode of a value that holds no callable.
Encode ==
    /\ decoded = NoDecoded
    /\ \E n \in 1..Len(PlainValues) : EncodeOf(PlainValues[n])

\* encode of a value that holds a callable, stored at one of two addresses.
EncodeCallable ==
    /\ decoded = NoDecoded
    /\ \E f \in Callables, at \in {AddrA, AddrB} :
          \E n \in 1..Len(CallableValues(f, at)) : EncodeOf(CallableValues(f, at)[n])

\* A decoder that empties the registry.  C34 tells it from DecodeOf.
DecodeOf_Clears(input, cap) ==
    /\ pc = "codec"
    /\ \E out \in {decode_value(input, [reg |-> registry, cap |-> cap])} :
          decoded' = [input |-> input, cap |-> cap, out |-> out]
    /\ registry' = EmptyMap
    /\ UNCHANGED <<pc, slot, borrowed, caller, request_id, uuids, replies, sent,
                   reads, called, result, why, obj, buffer, library, tr_call, item_call>>

\* CdcEncoder::decode_value(&mut input) on a host with allocation limit cap.
DecodeOf(input, cap) ==
    /\ pc = "codec"
    /\ \E out \in {decode_value(input, [reg |-> registry, cap |-> cap])} :
          decoded' = [input |-> input, cap |-> cap, out |-> out]
    /\ UNCHANGED <<pc, slot, borrowed, caller, request_id, uuids, replies, registry, sent,
                   reads, called, result, why, obj, buffer, library, tr_call, item_call>>

\* decode_value on what encode returned, alone or followed by further bytes.
Decode ==
    /\ buffer # <<>>
    /\ decoded = NoDecoded
    /\ \E s \in Suffixes, cap \in HostCaps : DecodeOf(buffer \o s, cap)

\* decode_value on what encode returned with bytes cut off its end.
DecodeCut ==
    /\ buffer # <<>>
    /\ decoded = NoDecoded
    /\ \E n \in 0..(Len(buffer) - 1), cap \in HostCaps : DecodeOf(Take(buffer, n), cap)

\* decode_value on bytes from elsewhere.
DecodeForeign ==
    /\ decoded = NoDecoded
    /\ \E n \in 1..Len(DecoderInputs), cap \in HostCaps : DecodeOf(DecoderInputs[n], cap)

\* The caller drops what decode_value returned.
DropDecoded ==
    /\ pc = "codec"
    /\ decoded # NoDecoded
    /\ decoded' = NoDecoded
    /\ UNCHANGED <<pc, slot, borrowed, caller, request_id, uuids, replies, registry, sent,
                   reads, called, result, why, obj, buffer, library, tr_call, item_call>>

\* encode of the Item decode_value has just returned; the caller keeps
\* the bytes it decoded.
EncodeDecodedItem ==
    /\ pc = "codec"
    /\ decoded # NoDecoded
    /\ decoded.out.ok
    /\ decoded.out.val.t = "ITEM"
    /\ obj' = decoded.out.val
    /\ buffer' = encode_value(decoded.out.val)
    /\ registry' = registered(registry, decoded.out.val)
    /\ UNCHANGED <<pc, slot, borrowed, caller, request_id, uuids, replies, sent, reads,
                   called, result, why, decoded, library, tr_call, item_call>>

NextCodec ==
    \/ Encode
    \/ EncodeCallable
    \/ Decode
    \/ DecodeCut
    \/ DecodeForeign
    \/ DropDecoded
    \/ EncodeDecodedItem

SpecCodec == InitCodec /\ [][NextCodec]_vars

\* ------------------------------- the library, call by call (src/src/lib.rs)

\* str::find(c): the byte offset of the first c, <<>> when there is none.
find(s, c) ==
    IF \E i \in 1..Len(s) : s[i] = c
    THEN <<(CHOOSE i \in 1..Len(s) : s[i] = c /\ \A j \in 1..(i - 1) : s[j] # c) - 1>>
    ELSE <<>>

RECURSIVE split(_, _)
\* str::split(c), collected: the pieces between the occurrences of c; a
\* string without c is one piece.
split(s, c) ==
    LET at == find(s, c)
    IN IF at = <<>> THEN <<s>>
       ELSE <<Take(s, at[1])>> \o split(Drop(s, at[1] + 1), c)

K_INTERPRETER_ID == <<105, 110, 116, 101, 114, 112, 114, 101, 116, 101, 114, 95, 105, 100>>
K_STRIP_TRACEBACKS == <<115, 116, 114, 105, 112, 95, 116, 114, 97, 99, 101, 98, 97, 99, 107, 115>>
QUESTION_MARK == <<63>>                                             \* "?"
AMPERSAND == <<38>>                                                 \* "&"
EQUALS_SIGN == <<61>>                                               \* "="
DIGIT_ONE == <<49>>                                                 \* "1"
DIGIT_ZERO == <<48>>                                                \* "0"

\* ConnectionConfig
ConnectionConfig(server_url, api_key, interpreter_id, strip_tracebacks) ==
    [server_url |-> server_url, api_key |-> api_key, interpreter_id |-> interpreter_id,
     strip_tracebacks |-> strip_tracebacks]

RECURSIVE parse_pairs(_, _)
\* The loop `for pair in query.split('&')`: a pair is split at '=', its
\* first piece is the key and its second the value; a pair of one piece is
\* skipped.
parse_pairs(pairs, cfg) ==
    IF pairs = <<>> THEN cfg
    ELSE LET parts == split(Head(pairs), EQUALS_SIGN[1])
             key == parts[1]
             value == parts[2]
             next == IF Len(parts) < 2 THEN cfg
                     ELSE IF key = APIKEY THEN [cfg EXCEPT !.api_key = value]
                     ELSE IF key = K_INTERPRETER_ID THEN [cfg EXCEPT !.interpreter_id = value]
                     ELSE IF key = K_STRIP_TRACEBACKS
                          THEN [cfg EXCEPT !.strip_tracebacks = (value = DIGIT_ONE)]
                     ELSE cfg
         IN parse_pairs(Tail(pairs), next)

\* parse_connection_config; uuid is what Uuid::new_v4().to_string() gives.
parse_connection_config(api_url, uuid) ==
    LET query_start == find(api_url, QUESTION_MARK[1])
        defaults == ConnectionConfig(api_url, <<>>, uuid, TRUE)
    IN [kind |-> "Ok",
        value |-> IF query_start = <<>> THEN defaults
                  ELSE parse_pairs(split(Drop(api_url, query_start[1] + 1), AMPERSAND[1]),
                                   defaults)]

\* The value of TOM_PYTHON_API_URL as the host writes it: the address, and
\* after a '?' the parameters as key=value joined by '&'.
RECURSIVE JoinParams(_)
JoinParams(params) ==
    IF params = <<>> THEN <<>>
    ELSE Head(params)[1] \o EQUALS_SIGN \o Head(params)[2]
         \o (IF Len(params) > 1 THEN AMPERSAND ELSE <<>>) \o JoinParams(Tail(params))

UrlOf(address, query) ==
    address \o (IF query = <<>> THEN <<>> ELSE QUESTION_MARK \o JoinParams(query[1]))

ADDRESS == <<119, 115, 58, 47, 47, 104, 58, 49>>                    \* "ws://h:1"
V_KEY == <<107, 101, 121>>                                          \* "key"
V_PADDED == <<97, 98, 61, 61>>                                      \* "ab=="
V_ABC == <<97, 98, 99>>                                             \* "abc"
K_OTHER == <<120>>                                                  \* "x"

\* The queries of the URLs handed to parse_connection_config: <<>> for a URL
\* without '?', <<params>> for one with the parameters after the '?'.
Queries ==
    << <<>>,
       << <<>> >>,
       << << <<APIKEY, V_KEY>>, <<K_INTERPRETER_ID, V_ABC>>, <<K_STRIP_TRACEBACKS, DIGIT_ONE>> >> >>,
       << << <<APIKEY, V_KEY>>, <<K_STRIP_TRACEBACKS, DIGIT_ZERO>> >> >>,
       << << <<APIKEY, <<>> >> >> >>,
       << << <<APIKEY, V_PADDED>> >> >>,
       << << <<K_INTERPRETER_ID, <<>> >> >> >>,
       << << <<K_OTHER, DIGIT_ONE>>, <<APIKEY, V_KEY>> >> >>,
       << << <<K_STRIP_TRACEBACKS, DIGIT_ONE>> >> >>,
       << << <<K_INTERPRETER_ID, V_ABC>>, <<K_OTHER, V_PADDED>>, <<APIKEY, V_ABC>> >> >> >>

\* Another process: nothing of the connection or of the codec is in use,
\* the library's functions are called one by one.
InitLibraryCalls ==
    /\ pc = "library"
    /\ slot = FALSE
    /\ borrowed = FALSE
    /\ caller = "none"
    /\ request_id = <<>>
    /\ uuids = 0
    /\ replies = EmptyMap
    /\ registry = EmptyMap
    /\ sent = <<>>
    /\ reads = <<>>
    /\ called = <<>>
    /\ result = NoResult
    /\ why = ""
    /\ obj = NONE
    /\ buffer = <<>>
    /\ decoded = NoDecoded
    /\ InitLibrary

\* The variables of the connection, which no call of the library changes.
connection ==
    <<pc, slot, borrowed, caller, request_id, uuids, replies, registry, sent, reads, called,
      result, why>>

\* parse_connection_config(api_url), the n-th identifier drawn for it; the
\* process calls it once, from initialize_gom_connection.
ParseConnectionConfig ==
    /\ pc = "library"
    /\ config = NoConfig
    /\ \E address \in {ADDRESS, <<>>}, q \in 1..Len(Queries), n \in 1..2 :
          LET api_url == UrlOf(address, Queries[q])
          IN config' = [api_url |-> api_url, uuid |-> Uuid(n),
                        out |-> parse_connection_config(api_url, Uuid(n))]
    /\ UNCHANGED <<connection, codec, tr_call, item_call, registered_types, cached_instances,
                   type_log, conversion>>

\* ------------------------------------- the TypeRegistry (src/src/types.rs)

\* A register_type that keeps the name a type id already has.  C30 tells it
\* from register_type.
register_type_KeepsFirst(types, type_id, type_name) ==
    IF type_id \in DOMAIN types THEN types ELSE Insert(types, type_id, type_name)

\* TypeRegistry::register_type
register_type(types, type_id, type_name) == Insert(types, type_id, type_name)

\* TypeRegistry::is_registered
is_registered(types, type_id) == type_id \in DOMAIN types

\* TypeRegistry::get_type_name: <<>> is None, <<name>> is Some(name).
get_type_name(types, type_id) == IF type_id \in DOMAIN types THEN <<types[type_id]>> ELSE <<>>

\* TypeRegistry::clear_cache
clear_cache(cache, type_id) == Remove(cache, type_id)

\* TypeRegistry::clear_all_caches
clear_all_caches(cache) == EmptyMap

\* The calls made on one registry are at most this many.
MaxTypeOps == 3

\* The type ids and type names the host uses; "unknown" is never registered.
TypeIds == {"test_id", "test_cache"}
TypeNames == {"TestType", "CacheTestType"}

\* register_type(type_id, type_name)
RegisterType ==
    /\ pc = "library"
    /\ Len(type_log) < MaxTypeOps
    /\ \E type_id \in TypeIds, type_name \in TypeNames :
          /\ registered_types' = register_type(registered_types, type_id, type_name)
          /\ type_log' = Append(type_log, [op |-> "register_type", type_id |-> type_id,
                                           type_name |-> type_name])
    /\ UNCHANGED <<connection, codec, tr_call, item_call, config, cached_instances, conversion>>

\* clear_cache(type_id), for a registered or an unregistered type
ClearCache ==
    /\ pc = "library"
    /\ Len(type_log) < MaxTypeOps
    /\ \E type_id \in TypeIds \cup {"unknown"} :
          /\ cached_instances' = clear_cache(cached_instances, type_id)
          /\ type_log' = Append(type_log, [op |-> "clear_cache", type_id |-> type_id,
                                           type_name |-> ""])
    /\ UNCHANGED <<connection, codec, tr_call, item_call, config, registered_types, conversion>>

\* clear_all_caches()
ClearAllCaches ==
    /\ pc = "library"
    /\ Len(type_log) < MaxTypeOps
    /\ cached_instances' = clear_all_caches(cached_instances)
    /\ type_log' = Append(type_log, [op |-> "clear_all_caches", type_id |-> "",
                                     type_name |-> ""])
    /\ UNCHANGED <<connection, codec, tr_call, item_call, config, registered_types, conversion>>

NextLibrary == ParseConnectionConfig \/ RegisterType \/ ClearCache \/ ClearAllCaches

SpecLibrary == InitLibraryCalls /\ [][NextLibrary]_vars

\* ---------------------------------------------------------- the claims

\* The frame read last by the running request, as the peer meant it.
LastRead == Inbound[reads[Len(reads)]]

\* A step of the read loop that read one more frame, and that frame.
ReadStep == Len(reads') = Len(reads) + 1
ReadFrame == Inbound[reads'[Len(reads')]]

\* The map a sequence of pairs with distinct keys stands for.
MapOf(pairs) ==
    [k \in {pairs[n][1] : n \in 1..Len(pairs)} |->
        pairs[CHOOSE n \in 1..Len(pairs) : pairs[n][1] = k][2]]

\* The taxonomy strings of the table of typed errors, written out.
BreakException == <<84, 111, 109, 58, 58, 71, 83, 99, 114, 105, 112, 116, 58, 58, 66, 114, 101, 97, 107, 69, 120, 99, 101, 112, 116, 105, 111, 110>>
AttributeException == <<84, 111, 109, 58, 58, 71, 83, 99, 114, 105, 112, 116, 58, 58, 65, 116, 116, 114, 105, 98, 117, 116, 101, 69, 120, 99, 101, 112, 116, 105, 111, 110>>
ImportException == <<84, 111, 109, 58, 58, 71, 83, 99, 114, 105, 112, 116, 58, 58, 73, 109, 112, 111, 114, 116, 69, 120, 99, 101, 112, 116, 105, 111, 110>>
IndexException == <<84, 111, 109, 58, 58, 71, 83, 99, 114, 105, 112, 116, 58, 58, 73, 110, 100, 101, 120, 69, 120, 99, 101, 112, 116, 105, 111, 110>>

\* The table of typed errors.
ExpectedKind(T) ==
    IF T = BreakException THEN "Break"
    ELSE IF T = AttributeException THEN "Attribute"
    ELSE IF T = ImportException THEN "Import"
    ELSE IF T = IndexException THEN "Index"
    ELSE "Request"

\* C1: a request that returned Ok(v) for id I has read a reply frame that
\* carries id I and value v.
C1_ReplyCorrelation ==
    (pc = "idle" /\ result.res.kind = "Ok") =>
        \E k \in 1..Len(reads) :
            /\ Inbound[reads[k]].kind = "reply"
            /\ Inbound[reads[k]].id = result.id
            /\ Unordered(Inbound[reads[k]].body.value) = result.res.value

\* C2: a reply or error frame read for an id other than the awaited one is in
\* the table of replies under its own id, while the request runs and when it
\* has returned.
C2_OtherIdsStored ==
    pc \in {"awaiting", "idle"} =>
        \A k \in 1..Len(reads) :
            (/\ Inbound[reads[k]].kind \in {"reply", "error"}
             /\ Inbound[reads[k]].id # request_id)
            => Inbound[reads[k]].id \in DOMAIN replies

\* C3: once an error frame for the awaited id is read, the request has
\* returned Err with the kind of the frame's taxonomy string, and the client
\* has not aborted.
C3_ErrorFrameReturnsErr ==
    (Len(reads) > 0 /\ LastRead.kind = "error" /\ LastRead.id = request_id) =>
        /\ pc = "idle"
        /\ result = [id |-> request_id,
                     res |-> [kind |-> "Err", err |-> [kind |-> ExpectedKind(LastRead.body.T)]]]

\* C4: once an error frame for the awaited id is read, the request has
\* returned an error that carries the frame's description, code, log and
\* value unchanged.
C4_ErrorFieldsPreserved ==
    (Len(reads) > 0 /\ LastRead.kind = "error" /\ LastRead.id = request_id) =>
        /\ pc = "idle"
        /\ result.id = request_id
        /\ result.res.kind = "Err"
        /\ {"description", "code", "log", "value"} \subseteq DOMAIN result.res.err
        /\ result.res.err.description = LastRead.body.description
        /\ result.res.err.code = LastRead.body.code
        /\ result.res.err.log = LastRead.body.log
        /\ result.res.err.value = LastRead.body.value

\* C5: ConnectionError::from gives a reply::Error of taxonomy string T
\* exactly the kind the table gives for T, for every T.
C5_ErrorKindTable ==
    conversion # NoConversion =>
        conversion.out = <<[kind |-> ExpectedKind(conversion.err.error_type)]>>

\* The index exception was converted to the index error.
C5_Witness ==
    /\ conversion # NoConversion
    /\ conversion.err.error_type = INDEX
    /\ conversion.out = <<[kind |-> "Index"]>>

\* C6: once a call frame for a registered callable (one that makes no
\* request of its own) is read and the transport takes the answer, the
\* callable was invoked with the frame's args and kwargs, its return value is
\* the last value sent, and the request is still awaiting; whatever the order
\* of the frame's pairs.
C6_CallDispatched ==
    (/\ Len(reads) > 0
     /\ LastRead.kind = "call"
     /\ LastRead.body.handle \in DOMAIN registry
     /\ registry[LastRead.body.handle] = "cb_count"
     /\ why # "Failed to send call result back to server!")
    => /\ pc = "awaiting"
       /\ called # <<>>
       /\ called[Len(called)] = [f |-> "cb_count", args |-> LastRead.body.args,
                                 kwargs |-> MapOf(LastRead.body.kwargs)]
       /\ sent[Len(sent)] = Invoke("cb_count", LastRead.body.args,
                                   MapOf(LastRead.body.kwargs), [kind |-> "None"])

\* C7: once a call frame for a callable that issues a request of its own is
\* read, the client has not aborted: the callable was invoked and the outer
\* request is still awaiting.
C7_NestedRequestCompletes ==
    (/\ Len(reads) > 0
     /\ LastRead.kind = "call"
     /\ LastRead.body.callable_last
     /\ LastRead.body.handle \in DOMAIN registry
     /\ registry[LastRead.body.handle] = "cb_nested"
     /\ why # "Failed to send call result back to server!")
    => /\ pc = "awaiting"
       /\ called # <<>>
       /\ called[Len(called)].f = "cb_nested"

\* C8: a step that reads a wait frame changes neither the table of replies,
\* nor the registry of callables, nor the messages sent, returns nothing to
\* the caller, and leaves the request awaiting.
C8_WaitIgnored ==
    [][(ReadStep /\ ReadFrame.kind = "wait") =>
          /\ pc' = "awaiting"
          /\ UNCHANGED <<replies, registry, sent, called, result, why, request_id>>]_vars

\* Two wait frames were read and the request is still awaiting.
C8_Witness ==
    /\ Len(reads) = 2
    /\ Inbound[reads[1]].kind = "wait"
    /\ LastRead.kind = "wait"
    /\ pc = "awaiting"

\* C9: once the read fails or an undecodable frame is read, the waiting
\* caller has received an error as the result of its request.
C9_CallerReceivesError ==
    (\/ why = "Couldn't read from the socket!"
     \/ (Len(reads) > 0 /\ LastRead.kind = "undecodable"))
    => /\ result.id = request_id
       /\ result.res.kind = "Err"

\* C10: a step that reads a frame whose type is none of the four ends the
\* client without a result and without a message sent, and nothing is sent
\* or read after the client has ended.
C10_UnknownTypeFatal ==
    [][/\ pc # "panicked"
       /\ (ReadStep /\ ReadFrame.kind = "other") =>
             /\ pc' = "panicked"
             /\ UNCHANGED <<result, sent, replies>>]_vars

\* The client ended on a frame of unknown type.
C10_Witness ==
    /\ pc = "panicked"
    /\ Len(reads) > 0
    /\ LastRead.kind = "other"
    /\ why = "Unknown message type received"

\* A step in which request sent its frame and entered the read loop.
StartStep == pc # "awaiting" /\ pc' = "awaiting"

\* Whether a value sent is a request frame carrying the id.
IsRequestWithId(v, id) ==
    /\ v.t = "MAP"
    /\ "pairs" \in DOMAIN v
    /\ \E n \in 1..Len(v.pairs) : v.pairs[n] = <<ID, STR(id)>>

\* The params the facade gives to request: those of register, or those of
\* execute_command for one of the argument lists of the host.
GivenParams(by, m) ==
    IF by = "register"
    THEN m = [k \in {ID, K_FILE} |-> IF k = ID THEN STR(INTERPRETER_ID) ELSE STR(CALLER_LABEL)]
    ELSE /\ DOMAIN m = {K_COMMAND, ARGS, KWARGS}
         /\ m[K_COMMAND] = STR(CMD_NAME)
         /\ m[ARGS].t = "LIST" /\ m[ARGS].items \in ArgChoices
         /\ m[KWARGS] = MAPSEQ(<<>>)

\* C11: a step in which request starts appends exactly one value to the
\* messages sent, with nothing read yet: a Map of exactly the five keys
\* type = "request", apikey = the key of init, id = an id no earlier request
\* frame carries, value = the code of the request kind (25 for REGISTER, 2 for
\* COMMAND), params = the given params.
C11_RequestFrame ==
    [][StartStep =>
          /\ Len(sent') = Len(sent) + 1
          /\ SubSeq(sent', 1, Len(sent)) = sent
          /\ reads' = <<>>
          /\ LET f == sent'[Len(sent')]
                 m == MapOf(f.pairs)
             IN /\ f.t = "MAP"
                /\ Len(f.pairs) = 5
                /\ DOMAIN m = {TYPE, APIKEY, ID, VALUE, PARAMS}
                /\ m[TYPE] = STR(T_REQUEST)
                /\ m[APIKEY] = STR(API_KEY)
                /\ m[ID] = STR(request_id')
                /\ \A k \in 1..Len(sent) : ~IsRequestWithId(sent[k], request_id')
                /\ m[VALUE] = INTEGER([hi |-> 0, lo |-> IF caller' = "register" THEN 25 ELSE 2])
                /\ m[PARAMS].t = "MAP"
                /\ Len(m[PARAMS].pairs) = Cardinality(DOMAIN MapOf(m[PARAMS].pairs))
                /\ GivenParams(caller', MapOf(m[PARAMS].pairs))]_vars

\* The second request of the client has sent its frame, a COMMAND with a
\* callable among its args.
C11_Witness ==
    /\ pc = "awaiting"
    /\ uuids = 2
    /\ reads = <<>>
    /\ IsRequestWithId(sent[1], Uuid(1))
    /\ IsRequestWithId(sent[Len(sent)], Uuid(2))
    /\ registry # EmptyMap

\* Whether a value sent is a request frame.
IsRequest(v) == v.t = "MAP" /\ "pairs" \in DOMAIN v /\ <<TYPE, STR(T_REQUEST)>> = v.pairs[1]

\* The ids of the request frames among the messages sent, oldest first.
RequestIds(out) ==
    LET frames == SelectSeq(out, IsRequest)
    IN [n \in 1..Len(frames) |-> MapOf(frames[n].pairs)[ID].s]

\* Whether the result is the outcome a frame carries.
OutcomeOf(frame, res) ==
    \/ frame.kind = "reply" /\ res = [kind |-> "Ok", value |-> Unordered(frame.body.value)]
    \/ frame.kind = "error"
       /\ res = [kind |-> "Err", err |-> [kind |-> ExpectedKind(frame.body.T)]]

\* C12: the request frames on the transport are in issue order, and when a
\* further request sends its frame the caller of the request before it has
\* received the outcome of that request: the outcome carried by a frame read
\* for its id.
C12_OutcomesInIssueOrder ==
    [][StartStep =>
          /\ RequestIds(sent') = [n \in 1..uuids' |-> Uuid(n)]
          /\ uuids >= 1 =>
                /\ result.id = request_id
                /\ \E k \in 1..Len(reads) :
                      /\ Inbound[reads[k]].id = request_id
                      /\ OutcomeOf(Inbound[reads[k]], result.res)]_vars

\* C13: the slot is filled only by the step in which the REGISTER request
\* (the first request, with params id = interpreter id and file = caller
\* label) returns Ok on reading a reply; while REGISTER runs and after an
\* initialisation that ended otherwise the slot is empty, and with the slot
\* empty a public call returns the no-connection error and sends nothing.
C13_InitInstalls ==
    [][/\ (slot' /\ ~slot) =>
             /\ caller = "register"
             /\ ReadStep /\ ReadFrame.kind = "reply"
             /\ result' = [id |-> Uuid(1),
                           res |-> [kind |-> "Ok", value |-> Unordered(ReadFrame.body.value)]]
             /\ IsRequestWithId(sent[1], Uuid(1))
             /\ MapOf(sent[1].pairs)[VALUE] = INTEGER([hi |-> 0, lo |-> 25])
             /\ GivenParams("register", MapOf(MapOf(sent[1].pairs)[PARAMS].pairs))
       /\ (caller' = "register" \/ (uuids' = 1 /\ pc' = "panicked")) => ~slot'
       /\ (pc = "idle" /\ ~slot) =>
             /\ result' = [id |-> <<>>, res |-> [kind |-> "Err", err |-> [kind |-> "Request"]]]
             /\ UNCHANGED <<slot, sent, reads, pc>>]_vars

\* Initialisation has installed the connection.
C13_Witness ==
    /\ slot
    /\ pc = "idle"
    /\ uuids = 1
    /\ result.id = Uuid(1) /\ result.res.kind = "Ok"

\* The values directly inside a value (encoder inputs).
Children(v) ==
    CASE v.t = "LIST" -> v.items
      [] v.t = "MAP" -> Seconds(v.pairs)
      [] v.t = "TRAIT" -> v.args \o Seconds(v.kwargs)
      [] v.t = "OBJECT" -> Seconds(v.attributes)
      [] v.t = "ARRAY" -> <<v.project, v.item>> \o v.transformation
      [] v.t = "PACKAGE" -> Seconds(v.metadata)
      [] OTHER -> <<>>

RECURSIVE HasCallable(_)
HasCallable(v) ==
    v.t = "CALLABLE" \/ \E n \in 1..Len(Children(v)) : HasCallable(Children(v)[n])

RECURSIVE HasNaN(_)
HasNaN(v) ==
    \/ v.t = "FLOAT" /\ is_nan(v.bits)
    \/ v.t = "VEC2D" /\ (is_nan(v.x) \/ is_nan(v.y))
    \/ v.t = "VEC3D" /\ (is_nan(v.x) \/ is_nan(v.y) \/ is_nan(v.z))
    \/ \E n \in 1..Len(Children(v)) : HasNaN(Children(v)[n])

\* decode_value was called on exactly the bytes encode returned for obj.
DecodedWhole == decoded # NoDecoded /\ buffer # <<>> /\ decoded.input = buffer

\* C14 as stated: for a value that holds no callable, decoding its encoding
\* succeeds and the result equals (==) the value.
C14_RoundTripEq ==
    (DecodedWhole /\ ~HasCallable(obj)) =>
        /\ decoded.out.ok
        /\ eq(decoded.out.val, Unordered(obj))

\* C14, amended: for a value that holds no callable, decoding its encoding
\* succeeds and yields the value field by field and bit by bit; the result
\* equals (==) the value unless the value holds a NaN.
C14_RoundTrip ==
    (DecodedWhole /\ ~HasCallable(obj)) =>
        /\ decoded.out.ok
        /\ decoded.out.val = Unordered(obj)
        /\ ~HasNaN(obj) => eq(decoded.out.val, Unordered(obj))
        /\ HasNaN(obj) => ~eq(decoded.out.val, Unordered(obj))

\* A map with a map inside was encoded and decoded.
C14_Witness ==
    /\ DecodedWhole
    /\ obj = MAPSEQ(<< <<S_A, INTEGER(I64(7))>>, <<S_B, LIST(<<NONE>>)>> >>)
    /\ decoded.out.ok
    /\ DOMAIN decoded.out.val.m = {S_A, S_B}

\* C15: decode_value applied to the encoding of a value (a callable
\* included, on the codec that encoded it) followed by any bytes s succeeds
\* and leaves exactly s unread.
C15_ExactConsumption ==
    (decoded # NoDecoded /\ buffer # <<>>) =>
        \A s \in Suffixes :
            decoded.input = buffer \o s => (decoded.out.ok /\ decoded.out.rest = s)

\* C16: decoding the encoding of a callable on the codec that has just
\* encoded it yields a callable, and on the same args and kwargs it returns
\* what the encoded callable returns.
C16_CallableRoundTrip ==
    (DecodedWhole /\ obj.t = "CALLABLE") =>
        /\ decoded.out.ok
        /\ decoded.out.val.t = "CALLABLE"
        /\ \A nested \in {[kind |-> "Ok", value |-> STR(TEXT_OK)],
                          [kind |-> "Err", err |-> [kind |-> "Request"]]} :
              Invoke(decoded.out.val.f, CallArgs, MapOf(CallKwargs), nested)
                  = Invoke(obj.f, CallArgs, MapOf(CallKwargs), nested)

\* The callable that makes a request of its own came back from the codec,
\* with another callable registered at the other address.
C16_Witness ==
    /\ DecodedWhole
    /\ obj = CALLABLE_AT("cb_nested", AddrB)
    /\ decoded.out.ok
    /\ decoded.out.val = CALLABLE("cb_nested")
    /\ AddrA \in DOMAIN registry

\* C17: across every encode on one codec, a handle of the callable registry
\* stays in it and keeps the callable it was emitted for: no entry is removed
\* or replaced by a different callable.
C17_RegistryStable ==
    [][\A h \in DOMAIN registry :
           h \in DOMAIN registry' /\ registry'[h] = registry[h]]_vars

\* The bytes are a Callable frame: the tag, then a string that is a handle as
\* u64::to_string writes it (at most 19 digits, no leading zero).
IsCallableFrame(input) ==
    /\ input # <<>>
    /\ input[1] = Tag("CALLABLE")
    /\ Len(input) >= 9
    /\ from_le_bytes(SubSeq(input, 2, 9)) \in {I64(n) : n \in 1..19}
    /\ LET n == from_le_bytes(SubSeq(input, 2, 9)).lo
       IN /\ Len(input) >= 9 + n
          /\ \A i \in 10..(9 + n) : IsDigit(input[i])
          /\ (n > 1 => input[10] # 48)

\* The handle of a Callable frame.
HandleOf(input) == SubSeq(input, 10, 9 + from_le_bytes(SubSeq(input, 2, 9)).lo)

\* C18: decoding a Callable frame whose handle is not in the registry of the
\* decoding codec fails with MissingFunction, and no callable is returned.
C18_MissingFunction ==
    (/\ decoded # NoDecoded
     /\ IsCallableFrame(decoded.input)
     /\ HandleOf(decoded.input) \notin DOMAIN registry)
        => decoded.out = Err("MissingFunction")

\* Bytes of another codec were decoded by a codec that has a callable of its
\* own registered, at another handle.
C18_Witness ==
    /\ decoded # NoDecoded
    /\ IsCallableFrame(decoded.input)
    /\ HandleOf(decoded.input) = AddrA
    /\ DOMAIN registry = {AddrB}
    /\ decoded.out = Err("MissingFunction")

\* The decoded input is the encoded bytes with one or more trailing bytes
\* removed.
DecodedPrefix ==
    /\ decoded # NoDecoded
    /\ Len(decoded.input) < Len(buffer)
    /\ decoded.input = Take(buffer, Len(decoded.input))

\* C19: decode_value applied to any proper prefix of the encoding of a value,
\* the empty prefix included, fails with MissingData.
C19_ShortBuffer ==
    DecodedPrefix => decoded.out = Err("MissingData")

\* The bytes are a List or Map frame: the tag, then the claimed length.
IsContainerFrame(input) ==
    /\ Len(input) >= 9
    /\ input[1] \in {Tag("LIST"), Tag("MAP")}

\* The claimed length of a container frame, as usize, is larger than the
\* number of bytes that follow it.
ClaimsTooMuch(input) ==
    LET L == from_le_bytes(SubSeq(input, 2, 9))
    IN ~IsSmall(L) \/ L.lo > Len(input) - 9

\* C20: decoding a List or Map frame whose claimed length is larger than the
\* remaining input fails with MissingData on every host: the decoder reserves
\* no more than the input can hold, so no allocation fails or aborts.
C20_BoundedAllocation ==
    (/\ decoded # NoDecoded
     /\ IsContainerFrame(decoded.input)
     /\ ClaimsTooMuch(decoded.input))
        => decoded.out = Err("MissingData")

\* The decoded input is a frame with a negative length field.
DecodedNegativeLength ==
    /\ decoded # NoDecoded
    /\ \E n \in 1..Len(NegativeLengthInputs) : decoded.input = NegativeLengthInputs[n]

\* C21: a length field that is negative as a signed 64-bit number (string byte
\* count, blob size, list or map count, object attribute count, array
\* index-path length, package metadata count) makes decode_value return a
\* decode error: the decode neither succeeds nor aborts.
C21_NegativeLengthRejected ==
    DecodedNegativeLength =>
        /\ ~decoded.out.ok
        /\ decoded.out.err \in {"MissingData", "UnknownType", "MissingFunction"}

\* The tag of each of the 21 variants, as the wire format numbers them.
WireTag ==
    [NONE |-> 0, BOOL |-> 1, INTEGER |-> 2, FLOAT |-> 3, STRING |-> 4, LIST |-> 5,
     MAP |-> 6, SLICE |-> 7, ITEM |-> 8, INDEXABLE |-> 9, COMMAND |-> 10,
     CALLABLE |-> 11, ERROR |-> 12, TRAIT |-> 13, OBJECT |-> 14, ARRAY |-> 15,
     PACKAGE |-> 16, VEC2D |-> 17, VEC3D |-> 18, RESOURCE_ACCESS |-> 19, BLOB |-> 20]

\* C22: the first byte of the encoding of a value is the tag of its variant,
\* and a value that decode_value returns is of the variant whose tag is the
\* first byte of the input.
C22_TagStable ==
    /\ buffer # <<>> => buffer[1] = WireTag[obj.t]
    /\ (decoded # NoDecoded /\ decoded.out.ok) =>
           WireTag[decoded.out.val.t] = decoded.input[1]

\* A Blob was encoded under tag 20 and decoded from it.
C22_Witness ==
    /\ obj.t = "BLOB"
    /\ buffer[1] = 20
    /\ DecodedWhole
    /\ decoded.out.ok
    /\ decoded.out.val.t = "BLOB"

\* Byte k (0 the lowest) of the two's complement of a signed 32-bit number.
ByteOf(n, k) == (n \div (256 ^ k)) % 256

\* The four bytes of a signed 32-bit number, lowest first.
Low4(n) == <<ByteOf(n, 0), ByteOf(n, 1), ByteOf(n, 2), ByteOf(n, 3)>>

\* The 8-byte little-endian two's complement of an i64.
TwosLE(x) == Low4(x.lo) \o Low4(x.hi)

\* The 8-byte little-endian two's complement of a number of 32 bits: the
\* high half repeats the sign.
SignedLE(n) == Low4(n) \o Low4(IF n < 0 THEN -1 ELSE 0)

RECURSIVE InListOrder(_, _)
\* bytes is the encoding of each element of items, one after the other.
InListOrder(items, bytes) ==
    IF items = <<>> THEN bytes = <<>>
    ELSE LET e == encode_value(Head(items))
         IN /\ Len(bytes) >= Len(e)
            /\ Take(bytes, Len(e)) = e
            /\ InListOrder(Tail(items), Drop(bytes, Len(e)))

\* C23: an Integer is tag 2 and its 8-byte little-endian two's complement; a
\* String is tag 4, its byte length in 8 little-endian bytes and its bytes,
\* with no terminator; a List is tag 5, the element count in 8 little-endian
\* bytes and the encodings of its elements in list order; an Item is tag 8,
\* the length-prefixed id, then category and stage as 8-byte little-endian
\* signed integers.
C23_WireLayout ==
    /\ (buffer # <<>> /\ obj.t = "INTEGER") => buffer = <<2>> \o TwosLE(obj.i)
    /\ (buffer # <<>> /\ obj.t = "STRING") =>
           buffer = <<4>> \o SignedLE(Len(obj.s)) \o obj.s
    /\ (buffer # <<>> /\ obj.t = "LIST") =>
           /\ Len(buffer) >= 9
           /\ Take(buffer, 9) = <<5>> \o SignedLE(Len(obj.items))
           /\ InListOrder(obj.items, Drop(buffer, 9))
    /\ (buffer # <<>> /\ obj.t = "ITEM") =>
           buffer = <<8>> \o SignedLE(Len(obj.item.id)) \o obj.item.id
                        \o SignedLE(obj.item.category) \o SignedLE(obj.item.stage)

\* The list [7, "a"] was encoded: count 2, then the integer, then the string.
C23_Witness ==
    /\ obj = LIST(<<INTEGER(I64(7)), STR(S_A)>>)
    /\ buffer = <<5, 2, 0, 0, 0, 0, 0, 0, 0,
                  2, 7, 0, 0, 0, 0, 0, 0, 0,
                  4, 1, 0, 0, 0, 0, 0, 0, 0, 97>>

\* The bound of a Slice that a slot value stands for.
BoundOf(v) == IF v.t = "NONE" THEN <<>> ELSE <<v.i>>

\* Every callable in the value has its handle in the registry, with the
\* value's callable under it: the codec has encoded it.
RECURSIVE Encoded(_)
Encoded(v) ==
    /\ v.t = "CALLABLE" => (v.at \in DOMAIN registry /\ registry[v.at] = v.f)
    /\ \A n \in 1..Len(Children(v)) : Encoded(Children(v)[n])

\* The decoded input is the Slice frame of two slot values that the codec
\* has encoded.
DecodedSlice(start, stop) ==
    /\ decoded # NoDecoded
    /\ decoded.input = SliceFrame(start, stop)
    /\ Encoded(start) /\ Encoded(stop)

\* C24: a Slice frame with a value of a variant other than None and Integer
\* in its start slot or its stop slot decodes to UnknownType; with None or
\* an Integer in both it decodes to Slice(start, stop), None as the absent
\* bound.
C24_SliceSlots ==
    (decoded # NoDecoded /\ decoded.input # <<>> /\ decoded.input[1] = Tag("SLICE")) =>
    \A i, j \in 1..Len(SlotValues) :
        LET start == SlotValues[i]
            stop == SlotValues[j]
        IN DecodedSlice(start, stop) =>
              IF start.t \in {"NONE", "INTEGER"} /\ stop.t \in {"NONE", "INTEGER"}
              THEN /\ decoded.out.ok
                   /\ decoded.out.val = SLICE(BoundOf(start), BoundOf(stop))
              ELSE decoded.out = Err("UnknownType")

\* The decoded input is the Indexable frame of a value that the codec has
\* encoded, the token "b" and the size 7.
DecodedIndexable(v) ==
    /\ decoded # NoDecoded
    /\ decoded.input = IndexableFrame(v, S_B, I64(7))
    /\ Encoded(v)

\* C25: an Indexable frame whose nested value is of a variant other than Item
\* decodes to UnknownType; when it is an Item the result is
\* Indexable(item, token, size) with the three fields as encoded.
C25_IndexableSlot ==
    (decoded # NoDecoded /\ decoded.input # <<>> /\ decoded.input[1] = Tag("INDEXABLE")) =>
    \A n \in 1..Len(SlotValues) :
        LET v == SlotValues[n]
        IN DecodedIndexable(v) =>
              IF v.t = "ITEM"
              THEN /\ decoded.out.ok
                   /\ decoded.out.val =
                          [t |-> "INDEXABLE", item |-> v.item, token |-> S_B, size |-> I64(7)]
              ELSE decoded.out = Err("UnknownType")

\* A frame that nests a Callable of this codec where the Item belongs was
\* refused.
C25_Witness ==
    /\ registry # EmptyMap
    /\ \E n \in 1..Len(SlotValues) :
          /\ SlotValues[n].t = "CALLABLE"
          /\ DecodedIndexable(SlotValues[n])
    /\ decoded.out = Err("UnknownType")

\* C26: decode_value on a buffer whose first byte is outside 0..20 fails with
\* UnknownType, whatever bytes follow.
C26_UnknownDiscriminant ==
    (decoded # NoDecoded /\ decoded.input # <<>> /\ decoded.input[1] \notin 0..20)
        => decoded.out = Err("UnknownType")

\* A buffer that starts with 21 and goes on like a Blob of one byte was
\* refused.
C26_Witness ==
    /\ decoded # NoDecoded
    /\ decoded.input = <<21, 1, 0, 0, 0, 0, 0, 0, 0, 0>>
    /\ decoded.out = Err("UnknownType")

\* The has-transformation byte and what the encoder writes after it.
FlagAndTransformation(v) ==
    IF v.transformation = <<>> THEN <<0>> ELSE <<1>> \o encode_value(v.transformation[1])

\* C27: encode writes the has-transformation byte of an Array always and the
\* transformation only when there is one; decode consumes exactly that byte
\* and decodes a transformation if and only if the byte is not zero, so that
\* decode consumes what encode wrote in both cases.
C27_ArrayFlag ==
    /\ (buffer # <<>> /\ obj.t = "ARRAY") =>
          LET tail == FlagAndTransformation(obj)
          IN /\ Len(buffer) > Len(tail)
             /\ Drop(buffer, Len(buffer) - Len(tail)) = tail
             /\ \A s \in Suffixes :
                   (decoded # NoDecoded /\ decoded.input = buffer \o s) =>
                       /\ decoded.out.ok
                       /\ decoded.out.rest = s
                       /\ (decoded.out.val.transformation = <<>>) = (obj.transformation = <<>>)
    /\ \A n \in 1..Len(ArrayTails) :
          (decoded # NoDecoded /\ decoded.input = ArrayHead \o ArrayTails[n]) =>
              LET flag == Head(ArrayTails[n])
                  after == Tail(ArrayTails[n])
                  tr == decode_value(after, [reg |-> registry, cap |-> decoded.cap])
              IN IF flag = 0
                 THEN /\ decoded.out.ok
                      /\ decoded.out.val.transformation = <<>>
                      /\ decoded.out.rest = after
                 ELSE IF tr.ok
                 THEN /\ decoded.out.ok
                      /\ decoded.out.val.transformation = <<tr.val>>
                      /\ decoded.out.rest = tr.rest
                 ELSE decoded.out = tr
    /\ (decoded # NoDecoded /\ decoded.input = ArrayHead) => decoded.out = Err("MissingData")

\* An Array frame whose has-transformation byte is zero was decoded: no
\* transformation, and the byte after the flag is left unread.
C27_Witness ==
    /\ decoded # NoDecoded
    /\ decoded.input = ArrayHead \o <<0, 0>>
    /\ decoded.out.ok
    /\ decoded.out.val.transformation = <<>>
    /\ decoded.out.rest = <<0>>

\* The value the host gave parameter `key` in a query, <<>> when the query
\* has no such parameter (the queries hold no key twice).
ParamOf(query, key) ==
    IF query = <<>> THEN <<>>
    ELSE LET params == query[1]
         IN IF \E k \in 1..Len(params) : params[k][1] = key
            THEN <<params[CHOOSE k \in 1..Len(params) : params[k][1] = key][2]>>
            ELSE <<>>

\* C28: parse_connection_config never fails; server_url is the input;
\* api_key is the value of `apikey`, empty when absent; interpreter_id is the
\* value of `interpreter_id`, a generated non-empty identifier when absent;
\* strip_tracebacks is true when absent or "1", false for "0".
C28_ParseConnectionConfig ==
    config # NoConfig =>
        /\ config.out.kind = "Ok"
        /\ config.out.value.server_url = config.api_url
        /\ \A address \in {ADDRESS, <<>>}, q \in 1..Len(Queries) :
              config.api_url = UrlOf(address, Queries[q]) =>
                  LET c == config.out.value
                      apikey == ParamOf(Queries[q], APIKEY)
                      id == ParamOf(Queries[q], K_INTERPRETER_ID)
                      strip == ParamOf(Queries[q], K_STRIP_TRACEBACKS)
                  IN /\ c.api_key = (IF apikey = <<>> THEN <<>> ELSE apikey[1])
                     /\ IF id = <<>> THEN c.interpreter_id # <<>> /\ c.interpreter_id = config.uuid
                        ELSE c.interpreter_id = id[1]
                     /\ (strip = <<>> \/ strip = <<DIGIT_ONE>>) => c.strip_tracebacks
                     /\ strip = <<DIGIT_ZERO>> => ~c.strip_tracebacks

\* The positions of the log at which register_type was called for a type id.
RegisteredAt(type_id) ==
    {k \in 1..Len(type_log) :
        type_log[k].op = "register_type" /\ type_log[k].type_id = type_id}

\* The greatest number of a set of numbers that is not empty.
Latest(S) == CHOOSE k \in S : \A j \in S : j <= k

\* C30: after any calls of register_type, clear_cache and clear_all_caches,
\* is_registered(id) is true exactly when register_type was called for id,
\* and get_type_name(id) is the name of the latest such call, None when there
\* is none; the clear operations change neither.
C30_TypeRegistry ==
    \A type_id \in TypeIds \cup {"unknown"} :
        /\ is_registered(registered_types, type_id) = (RegisteredAt(type_id) # {})
        /\ get_type_name(registered_types, type_id) =
              (IF RegisteredAt(type_id) = {} THEN <<>>
               ELSE <<type_log[Latest(RegisteredAt(type_id))].type_name>>)

\* A type was registered twice under two names and its cache cleared: it is
\* registered, under the second name.
C30_Witness ==
    /\ Len(type_log) = 3
    /\ type_log[1] = [op |-> "register_type", type_id |-> "test_cache",
                      type_name |-> "TestType"]
    /\ type_log[2] = [op |-> "register_type", type_id |-> "test_cache",
                      type_name |-> "CacheTestType"]
    /\ type_log[3].op = "clear_cache"
    /\ type_log[3].type_id = "test_cache"
    /\ is_registered(registered_types, "test_cache")
    /\ get_type_name(registered_types, "test_cache") = <<"CacheTestType">>
    /\ ~is_registered(registered_types, "test_id")

\* Whether a value sent is the frame of a TRANSLATE request.
IsTranslate(v) == IsRequest(v) /\ MapOf(v.pairs)[VALUE] = INTEGER(I64(37))

\* The request that runs, or the last one that ran, is the one tr made.
TrRequested == sent # <<>> /\ IsTranslate(sent[Len(sent)])

\* What tr is to return for a reply value, as the peer built it: the String
\* under "translation" of a Map, or else the text.
TranslationOf(value, text) ==
    IF /\ value.t = "MAP"
       /\ \E n \in 1..Len(value.pairs) :
             value.pairs[n][1] = K_TRANSLATION /\ value.pairs[n][2].t = "STRING"
    THEN MapOf(value.pairs)[K_TRANSLATION].s
    ELSE text

\* C29: tr returns its text when no connection is installed, without sending
\* anything; when its TRANSLATE request is answered by an error; and when the
\* reply is no Map with a String under "translation".  Otherwise it returns
\* that String.
C29_TrFallsBackToText ==
    /\ (tr_call # NoTr /\ ~slot) =>
           /\ tr_call.out = <<tr_call.text>>
           /\ \A k \in 1..Len(sent) : ~IsTranslate(sent[k])
    /\ (TrRequested /\ Len(reads) > 0 /\ LastRead.id = request_id) =>
           /\ LastRead.kind = "error" =>
                  (pc = "idle" /\ tr_call.out = <<tr_call.text>>)
           /\ LastRead.kind = "reply" =>
                  (pc = "idle" /\ tr_call.out = <<TranslationOf(LastRead.body.value, tr_call.text)>>)

\* The panics of a running request that the premise of C31 rules out: a call
\* frame for a handle the client never gave out, a callable that does not
\* return, a send that fails.
Unanswerable ==
    {"Couldn't decode the a reply from the server", "already borrowed: BorrowMutError",
     "Failed to send call result back to server!"}

\* Whether every message the running request has read is a wait frame.
OnlyWaitsRead == \A k \in 1..Len(reads) : Inbound[reads[k]].kind = "wait"

\* C31: with a peer that delivers finitely many wait, call and foreign-id
\* frames and then a reply or error frame for the awaited id, and callables
\* that return, a request that was sent eventually returns; and a request
\* that has read wait frames only has not returned.
C31_RequestLiveness ==
    /\ (pc = "awaiting") ~> (pc = "idle" \/ (pc = "panicked" /\ why \in Unanswerable))
    /\ []((Len(reads) > 0 /\ OnlyWaitsRead) => pc = "awaiting")

\* The ids of the requests that are over: every id handed out but the one a
\* running request waits for.
Over == {Uuid(n) : n \in 1..uuids} \ (IF pc = "awaiting" THEN {request_id} ELSE {})

\* The step in which a request returns.
ReturnStep == pc = "awaiting" /\ pc' = "idle"

\* C32: the step in which a request returns hands out the entry stored for
\* its id and removes it from the table; the id differs from the id of every
\* result returned before, and the table never holds an entry for the id of
\* a request that is over.
C32_TableHygiene ==
    [][/\ ReturnStep =>
             /\ result'.id = request_id
             /\ request_id \notin DOMAIN replies'
             /\ result'.id # result.id
             /\ request_id \notin Over
       /\ DOMAIN replies' \cap Over' = {}]_vars

\* A second request has returned.
C32_Witness ==
    /\ pc = "idle"
    /\ uuids = 2
    /\ result.id = Uuid(2)
    /\ result.res.kind = "Ok"
    /\ Uuid(2) \notin DOMAIN replies

\* How many call frames the running (or the last) request has read.
CallFramesRead == Cardinality({k \in 1..Len(reads) : Inbound[reads[k]].kind = "call"})

\* Where in `sent` the frame of the running (or the last) request is.
RequestAt == CHOOSE p \in 1..Len(sent) : IsRequestWithId(sent[p], request_id)

\* Every call frame the running (or the last) request has read names a
\* callable the codec has registered.
CallFramesRegistered ==
    \A k \in 1..Len(reads) :
        Inbound[reads[k]].kind = "call" => Inbound[reads[k]].body.handle \in DOMAIN registry

\* C33: a request whose frame the transport took has sent 1 + k messages, k
\* the number of call frames it read, each for a registered callable and
\* each answer taken by the transport; and a round of the read loop that
\* reads a reply, an error or a wait frame sends nothing.
C33_OutboundAccounting ==
    [][/\ (/\ request_id' # <<>>
           /\ \E p \in 1..Len(sent') : IsRequestWithId(sent'[p], request_id')
           /\ CallFramesRegistered'
           /\ why' # "Failed to send call result back to server!")
          => Len(sent') - RequestAt' + 1 = 1 + CallFramesRead'
       /\ (ReadStep /\ ReadFrame.kind \in {"reply", "error", "wait"}) => sent' = sent]_vars

RECURSIVE CallablesIn(_)
\* The callables inside an encoder input, each with the address it is
\* stored at.
CallablesIn(v) ==
    IF v.t = "CALLABLE" THEN {<<v.at, v.f>>}
    ELSE UNION {CallablesIn(Children(v)[n]) : n \in 1..Len(Children(v))}

\* The step is a call of encode: nothing decoded lies around before or after.
EncodeStep == decoded = NoDecoded /\ decoded' = NoDecoded

\* C34: a call of decode_value, whatever it returns, leaves the callable
\* registry as it was, and so does the encode of a value that holds no
\* callable; the registry changes only in the encode of a value that holds
\* a callable, which leaves under every handle it emitted a callable stored
\* at that address and every other entry as it was.
C34_RegistryFrame ==
    [][/\ decoded' # NoDecoded => registry' = registry
       /\ (EncodeStep /\ ~HasCallable(obj')) => registry' = registry
       /\ registry' # registry => (EncodeStep /\ HasCallable(obj'))
       /\ (EncodeStep /\ HasCallable(obj')) =>
             /\ \A c \in CallablesIn(obj') :
                   /\ c[1] \in DOMAIN registry'
                   /\ <<c[1], registry'[c[1]]>> \in CallablesIn(obj')
             /\ \A h \in DOMAIN registry' :
                   \/ h \in {c[1] : c \in CallablesIn(obj')}
                   \/ h \in DOMAIN registry /\ registry'[h] = registry[h]]_vars

\* With two callables registered, a decode has failed and the registry
\* still holds both.
C34_Witness ==
    /\ pc = "codec"
    /\ DOMAIN registry = {AddrA, AddrB}
    /\ decoded # NoDecoded
    /\ ~decoded.out.ok

\* The last decode was given an Item frame of the peer and nothing else, and
\* the Item it returned has been encoded.
ItemReEncoded ==
    /\ decoded # NoDecoded
    /\ \E n \in 1..Len(ItemInputs) : decoded.input = ItemInputs[n]
    /\ decoded.out.ok
    /\ obj = decoded.out.val

\* C35: an Item frame whose category and stage are any 64-bit numbers is
\* decoded, and the encoding of the Item the decode returned is the frame
\* again, byte for byte.
C35_ItemNumbers ==
    /\ (decoded # NoDecoded /\ \E n \in 1..Len(ItemInputs) : decoded.input = ItemInputs[n])
          => decoded.out.ok
    /\ ItemReEncoded => buffer = decoded.input

\* The values directly inside a decoded value.
DecodedChildren(v) ==
    LET Range(f) == {f[k] : k \in DOMAIN f}
    IN CASE v.t = "LIST" -> Range(v.items)
         [] v.t = "MAP" -> Range(v.m)
         [] v.t = "TRAIT" -> Range(v.args) \cup Range(v.kwargs)
         [] v.t = "OBJECT" -> Range(v.attributes)
         [] v.t = "ARRAY" -> {v.project, v.item} \cup Range(v.transformation)
         [] v.t = "PACKAGE" -> Range(v.metadata)
         [] OTHER -> {}

RECURSIVE Depth(_)
\* How deep the values of a decoded value are nested: 1 for a value with no
\* value inside.
Depth(v) ==
    LET below == {Depth(c) : c \in DecodedChildren(v)}
    IN 1 + (IF below = {} THEN 0 ELSE CHOOSE d \in below : \A e \in below : e <= d)

\* The bytes a decode consumed were followed by `rest` in `input`.
IsProperSuffix(rest, input) ==
    /\ Len(rest) < Len(input)
    /\ rest = Drop(input, Len(input) - Len(rest))

\* C36: decode_value ends on every buffer, with a value and the bytes after
\* it or with one of the three decode errors; the bytes left are a suffix of
\* the buffer shorter than it, and the value is nested no deeper than the
\* number of bytes consumed.
C36_DecoderTerminates ==
    decoded # NoDecoded =>
        /\ \/ decoded.out.ok
           \/ decoded.out.err \in {"MissingData", "UnknownType", "MissingFunction"}
        /\ decoded.out.ok =>
              /\ IsProperSuffix(decoded.out.rest, decoded.input)
              /\ Depth(decoded.out.val) <= Len(decoded.input) - Len(decoded.out.rest)

\* The map a Map frame with these pairs stands for when the last pair of
\* a key counts.
RECURSIVE LastWins(_)
LastWins(pairs) ==
    [k \in {pairs[n][1] : n \in 1..Len(pairs)} |->
        LET last == CHOOSE n \in 1..Len(pairs) :
                       /\ pairs[n][1] = k
                       /\ \A j \in (n + 1)..Len(pairs) : pairs[j][1] # k
        IN IF pairs[last][2].t = "MAP" THEN MAP(LastWins(pairs[last][2].pairs))
           ELSE pairs[last][2]]

\* C37: a Map frame of n pairs in which a key comes more than once decodes
\* to a map with one entry for each key, holding the value of the last pair
\* with that key, fewer than n entries in all; the n pairs are consumed and
\* the bytes after them are left.
C37_RepeatedKeys ==
    \A n \in 1..Len(RepeatedKeyPairs), s \in {<<>>, <<21, 4>>} :
        (decoded # NoDecoded
         /\ decoded.input = encode_value(MAPSEQ(RepeatedKeyPairs[n])) \o s) =>
            /\ decoded.out.ok
            /\ decoded.out.val = MAP(LastWins(RepeatedKeyPairs[n]))
            /\ Cardinality(DOMAIN decoded.out.val.m) < Len(RepeatedKeyPairs[n])
            /\ decoded.out.rest = s

\* A frame of three pairs with the keys a, b, a and two bytes after it was
\* decoded: two entries, a with the value of the third pair.
C37_Witness ==
    /\ decoded # NoDecoded
    /\ decoded.input = RepeatedKeyInputs[7]
    /\ decoded.out.ok
    /\ decoded.out.val = MAP(Insert(Insert(EmptyMap, S_A, STR(S_B)), S_B, NONE))
    /\ decoded.out.rest = <<21, 4>>

\* The step is a call of Item::equals (not the return of its request).
EqualsCalled == pc = "idle" /\ item_call' # item_call /\ item_call'.method = "equals"

\* C38: equals on two items of the same id and the same category, whatever
\* their stages and with or without a connection, returns Ok(true) and sends
\* nothing; on any other two items with no connection it returns
\* Err(Request) and sends nothing.
C38_EqualsFastPath ==
    [][EqualsCalled =>
          LET self == item_call'.self
              other == item_call'.args.other
              same == self.id = other.id /\ self.category = other.category
          IN /\ same =>
                   /\ item_call'.out = <<[kind |-> "Ok", value |-> TRUE]>>
                   /\ UNCHANGED <<sent, uuids, pc, borrowed>>
             /\ (~same /\ ~slot) =>
                   /\ item_call'.out = <<[kind |-> "Err", err |-> [kind |-> "Request"]]>>
                   /\ UNCHANGED <<sent, uuids, pc, borrowed>>]_vars

\* With a connection installed, equals on two items that differ in the
\* stage has returned Ok(true); only the REGISTER request was ever sent.
C38_Witness ==
    /\ slot
    /\ pc = "idle"
    /\ item_call.self # <<>>
    /\ item_call.method = "equals"
    /\ item_call.self.stage # item_call.args.other.stage
    /\ item_call.self.id = item_call.args.other.id
    /\ item_call.self.category = item_call.args.other.category
    /\ item_call.out = <<[kind |-> "Ok", value |-> TRUE]>>
    /\ Len(sent) = 1

\* The bytes are a Callable frame with its handle string complete.
HasHandle(input) ==
    /\ Len(input) >= 9
    /\ input[1] = Tag("CALLABLE")
    /\ LET L == from_le_bytes(SubSeq(input, 2, 9))
       IN L.hi = 0 /\ L.lo >= 0 /\ Len(input) >= 9 + L.lo

\* The digits of 2^64 - 1.
MaxU64 == <<1, 8, 4, 4, 6, 7, 4, 4, 0, 7, 3, 7, 0, 9, 5, 5, 1, 6, 1, 5>>

\* Whether a string is an unsigned decimal number of at most 64 bits: an
\* optional plus sign, then digits that write a number up to 2^64 - 1.
IsU64Text(s) ==
    LET d == IF s # <<>> /\ s[1] = 43 THEN Tail(s) ELSE s
        zeros == IF \A i \in 1..Len(d) : d[i] = 48 THEN Len(d) - 1
                 ELSE (CHOOSE i \in 1..Len(d) : d[i] # 48 /\ \A j \in 1..(i - 1) : d[j] = 48) - 1
        c == [i \in 1..(Len(d) - zeros) |-> d[zeros + i] - 48]
    IN /\ d # <<>>
       /\ \A i \in 1..Len(d) : d[i] \in 48..57
       /\ \/ Len(c) < Len(MaxU64)
          \/ /\ Len(c) = Len(MaxU64)
             /\ \/ c = MaxU64
                \/ \E i \in 1..Len(c) : c[i] < MaxU64[i] /\ \A j \in 1..(i - 1) : c[j] = MaxU64[j]

\* C39: decoding a Callable frame whose handle string is no unsigned decimal
\* number of 64 bits fails with UnknownType, whatever the registry holds:
\* never with MissingFunction, never with a callable.
C39_NoHandle ==
    (/\ decoded # NoDecoded
     /\ HasHandle(decoded.input)
     /\ ~IsU64Text(HandleOf(decoded.input)))
        => decoded.out = Err("UnknownType")

\* With the callable of handle 4096 registered, a frame whose handle is
\* "4096a" was decoded.
C39_Witness ==
    /\ decoded # NoDecoded
    /\ decoded.input = NoHandleInputs[4]
    /\ AddrA \in DOMAIN registry
    /\ decoded.out = Err("UnknownType")
====
